---- MODULE Spec2Model ----
(***************************************************************************)
(* Model of the dependency-graph engine of conda-env-inspect               *)
(* (src/src/advanced_analysis.rs): create_advanced_dependency_graph,       *)
(* find_transitive_dependencies, dfs_collect_deps, detect_conflicts,       *)
(* find_version_requirement, versions_compatible and parse_dependency,     *)
(* and of the graph layout of the interactive view                         *)
(* (src/src/interactive.rs): calculate_graph_layout_vec.                   *)
(*                                                                         *)
(* Around the engine: the key handling of InteractiveUI::run               *)
(* (src/src/interactive.rs, SpecUI), the lookup of dependencies            *)
(* get_real_package_dependencies with enhance_dependency_map               *)
(* (src/src/analysis.rs, SpecLookup), the Safety DB cache of               *)
(* check_pypi_security (src/src/advanced_analysis.rs, SpecCache) and       *)
(* enrich_packages_parallel (src/src/performance.rs, SpecEnrich).          *)
(*                                                                         *)
(* A Rust String is modelled as a sequence of one-character strings, so    *)
(* that starts_with, contains, slicing and the regular expression of       *)
(* parse_dependency are computed on the characters.                        *)
(***************************************************************************)
EXTENDS Integers, Sequences, FiniteSets, TLC

\* ------------------------------------------------------------------ bounds
MaxPkgs == 3
MaxDeps == 2
MaxTotalDeps == 3
MaxConflictDeps == 3
MaxConflictTotal == 4
MaxLayoutNodes == 3
MaxLayoutEdges == 3
MaxLayoutCalls == 2

\* ------------------------------------------------------------ string data
python == <<"p", "y", "t", "h", "o", "n">>
numpy == <<"n", "u", "m", "p", "y">>
pandas == <<"p", "a", "n", "d", "a", "s">>
scipy == <<"s", "c", "i", "p", "y">>
scikit_learn == <<"s", "c", "i", "k", "i", "t", "-", "l", "e", "a", "r", "n">>
python_ge3 == python \o <<">", "=", "3">>
\* A dependency string without a name.
ge3 == <<">", "=", "3">>
numpy_lt_1_18_0 == numpy \o <<"<", "1", ".", "1", "8", ".", "0">>
numpy_ge_1_20_0 == numpy \o <<">", "=", "1", ".", "2", "0", ".", "0">>
numpy_ge_5_0_0 == numpy \o <<">", "=", "5", ".", "0", ".", "0">>
numpy_eqeq_1_21_0 == numpy \o <<"=", "=", "1", ".", "2", "1", ".", "0">>
numpy_eqeq_1_20_0 == numpy \o <<"=", "=", "1", ".", "2", "0", ".", "0">>
python_numpy_ge_1_0 == python \o <<"-">> \o numpy \o <<">", "=", "1", ".", "0">>
python_numpy == python \o <<"-">> \o numpy
python_numpy_lt_1_0_0 == python_numpy \o <<"<", "1", ".", "0", ".", "0">>
typing_extensions == <<"t", "y", "p", "i", "n", "g", "-", "e", "x", "t", "e", "n", "s", "i", "o", "n", "s">>
star == <<"*">>
any == <<"a", "n", "y">>

\* The package lists fed to the graph builder: prefixes of this list (names are
\* unique within an environment).
PkgOrder == <<python, numpy, pandas, scipy>>
\* Keys and dependency strings of the dependency maps fed to the graph builder.
GraphKeys == {python, numpy, pandas}
GraphDepStrings == {python, numpy, pandas, python_ge3, ge3}
\* The package list, keys and dependency strings fed to detect_conflicts when it is
\* called on its own, as tests/advanced_analysis_test.rs does.
ConflictPackages == <<python, numpy, pandas, scikit_learn>>
ConflictKeys == {pandas, scikit_learn}
ConflictDepStrings == {numpy, numpy_lt_1_18_0, numpy_ge_1_20_0, numpy_ge_5_0_0,
                       numpy_eqeq_1_21_0, numpy_eqeq_1_20_0, python_numpy_ge_1_0}
\* A map in which two packages share two dependencies, numpy and python-numpy, their
\* first string constraining both.
TwoSharedDeps ==
    (pandas :> <<python_numpy_ge_1_0, numpy, python_numpy>>) @@
    (scikit_learn :> <<python_numpy_lt_1_0_0, numpy, python_numpy>>)
ConflictScenarios == {TwoSharedDeps}
\* The node names of the graphs fed to the layout.
LayoutNames == {python, numpy, typing_extensions}

\* ---------------------------------------------------------- generic helpers
Range(s) == {s[i] : i \in 1..Len(s)}

Min(a, b) == IF a < b THEN a ELSE b

Perms(S) == {f \in [1..Cardinality(S) -> S] : \A i, j \in 1..Cardinality(S) : f[i] = f[j] => i = j}

SeqsUpTo(S, n) == UNION {[1..k -> S] : k \in 0..n}

Max(a, b) == IF a > b THEN a ELSE b

\* Size of a dependency map: its dependency strings, an empty list counting as one.
RECURSIVE MapSize(_, _)
MapSize(m, keys) ==
    IF keys = {} THEN 0
    ELSE LET k == CHOOSE x \in keys : TRUE
         IN Max(Len(m[k]), 1) + MapSize(m, keys \ {k})

Reverse(s) == [i \in 1..Len(s) |-> s[Len(s) + 1 - i]]

\* ----------------------------------------------------------- str operations
Digits == <<"0", "1", "2", "3", "4", "5", "6", "7", "8", "9">>
DigitChars == Range(Digits)
LowerChars == {"a", "b", "c", "d", "e", "f", "g", "h", "i", "j", "k", "l", "m",
               "n", "o", "p", "q", "r", "s", "t", "u", "v", "w", "x", "y", "z"}
UpperChars == {"A", "B", "C", "D", "E", "F", "G", "H", "I", "J", "K", "L", "M",
               "N", "O", "P", "Q", "R", "S", "T", "U", "V", "W", "X", "Y", "Z"}
\* The character class [<>=~^] of lines 271, 276 and 460.
OpChars == {"=", ">", "<", "~", "^"}
\* The character class [a-zA-Z0-9_-] of line 460.
NameChars == LowerChars \cup UpperChars \cup DigitChars \cup {"_", "-"}

\* str::starts_with
StartsWith(s, prefix) ==
    /\ Len(prefix) <= Len(s)
    /\ SubSeq(s, 1, Len(prefix)) = prefix

\* str::contains
Contains(s, pat) ==
    \E i \in 0..(Len(s) - Len(pat)) : SubSeq(s, i + 1, i + Len(pat)) = pat

\* &s[from..], from a 0-based offset
SliceFrom(s, from) == SubSeq(s, from + 1, Len(s))

\* 0-based offset of the first character of s that is in class, or -1.
FirstIn(s, class) ==
    IF \E i \in 1..Len(s) : s[i] \in class
    THEN (CHOOSE i \in 1..Len(s) : s[i] \in class /\ \A j \in 1..(i - 1) : s[j] \notin class) - 1
    ELSE -1

\* The first item of s.split(class): what precedes the first character in class.
FirstSplit(s, class) ==
    IF FirstIn(s, class) = -1 THEN s ELSE SubSeq(s, 1, FirstIn(s, class))

\* ------------------------------------------------ the semver crate, as called
\* The requirement strings modelled are made of letters, digits, '.', the characters
\* of OpChars and a lone "*": a single comparator, without spaces, commas,
\* pre-release or build parts and without the letters x and X.
DigitValue(c) == (CHOOSE i \in 1..10 : Digits[i] = c) - 1

RECURSIVE NumberOf(_)
NumberOf(s) ==
    IF s = <<>> THEN 0 ELSE 10 * NumberOf(SubSeq(s, 1, Len(s) - 1)) + DigitValue(s[Len(s)])

\* A numeric identifier: digits, without a leading zero.
IsNumeric(s) ==
    /\ s # <<>>
    /\ \A i \in 1..Len(s) : s[i] \in DigitChars
    /\ (Len(s) > 1 => s[1] # "0")

RECURSIVE SplitDots(_)
SplitDots(s) ==
    IF FirstIn(s, {"."}) = -1 THEN <<s>>
    ELSE <<SubSeq(s, 1, FirstIn(s, {"."}))>> \o SplitDots(SliceFrom(s, FirstIn(s, {"."}) + 1))

ReqErr == [kind |-> "err"]

OpLen(s) ==
    IF StartsWith(s, <<">", "=">>) \/ StartsWith(s, <<"<", "=">>) THEN 2
    ELSE IF s # <<>> /\ s[1] \in OpChars THEN 1
    ELSE 0

\* A missing operator is the caret operator.
OpOf(s) == IF OpLen(s) = 0 THEN <<"^">> ELSE SubSeq(s, 1, OpLen(s))

\* semver::VersionReq::parse (line 291)
VersionReqParse(s) ==
    IF s = star THEN [kind |-> "star"]
    ELSE LET parts == SplitDots(SliceFrom(s, OpLen(s)))
         IN IF Len(parts) <= 3 /\ \A i \in 1..Len(parts) : IsNumeric(parts[i])
            THEN [kind |-> "cmp", op |-> OpOf(s),
                  major |-> NumberOf(parts[1]),
                  minor |-> IF Len(parts) >= 2 THEN NumberOf(parts[2]) ELSE -1,
                  patch |-> IF Len(parts) >= 3 THEN NumberOf(parts[3]) ELSE -1]
            ELSE ReqErr

MatchesExact(c, v) ==
    /\ v[1] = c.major
    /\ (c.minor # -1 => v[2] = c.minor)
    /\ (c.patch # -1 => v[3] = c.patch)

MatchesGreater(c, v) ==
    IF v[1] # c.major THEN v[1] > c.major
    ELSE IF c.minor = -1 THEN FALSE
    ELSE IF v[2] # c.minor THEN v[2] > c.minor
    ELSE IF c.patch = -1 THEN FALSE
    ELSE v[3] > c.patch

MatchesLess(c, v) ==
    IF v[1] # c.major THEN v[1] < c.major
    ELSE IF c.minor = -1 THEN FALSE
    ELSE IF v[2] # c.minor THEN v[2] < c.minor
    ELSE IF c.patch = -1 THEN FALSE
    ELSE v[3] < c.patch

MatchesTilde(c, v) ==
    /\ v[1] = c.major
    /\ (c.minor # -1 => v[2] = c.minor)
    /\ (c.patch # -1 => v[3] >= c.patch)

MatchesCaret(c, v) ==
    IF v[1] # c.major THEN FALSE
    ELSE IF c.minor = -1 THEN TRUE
    ELSE IF c.patch = -1
         THEN (IF c.major > 0 THEN v[2] >= c.minor ELSE v[2] = c.minor)
    ELSE IF c.major > 0
         THEN (IF v[2] # c.minor THEN v[2] > c.minor ELSE v[3] >= c.patch)
    ELSE IF c.minor > 0
         THEN v[2] = c.minor /\ v[3] >= c.patch
    ELSE v[2] = c.minor /\ v[3] = c.patch

\* semver::VersionReq::matches (line 301), for a version <<major, minor, patch>>
Matches(req, v) ==
    IF req.kind = "star" THEN TRUE
    ELSE IF req.op = <<"=">> THEN MatchesExact(req, v)
    ELSE IF req.op = <<">">> THEN MatchesGreater(req, v)
    ELSE IF req.op = <<">", "=">> THEN MatchesExact(req, v) \/ MatchesGreater(req, v)
    ELSE IF req.op = <<"<">> THEN MatchesLess(req, v)
    ELSE IF req.op = <<"<", "=">> THEN MatchesExact(req, v) \/ MatchesLess(req, v)
    ELSE IF req.op = <<"~">> THEN MatchesTilde(req, v)
    ELSE MatchesCaret(req, v)

\* ---------------------------------------------------------- versions_compatible
\* test_versions (lines 294-297), in the order of the source.
test_versions ==
    <<<<0, 1, 0>>, <<1, 0, 0>>, <<1, 1, 0>>, <<2, 0, 0>>, <<3, 0, 0>>, <<4, 0, 0>>,
      <<1, 2, 3>>, <<2, 3, 4>>, <<3, 4, 5>>, <<4, 5, 6>>>>

\* Mutant: only the first requirement is probed.
ProbeBoth_FirstOnly(v1, v2) ==
    \E k \in 1..Len(test_versions) : Matches(v1, test_versions[k])

\* Lines 299-306: some probe version satisfies both requirements.
ProbeBoth(v1, v2) ==
    \E k \in 1..Len(test_versions) :
        Matches(v1, test_versions[k]) /\ Matches(v2, test_versions[k])

\* Mutant: textual equality is tested before the probe versions.
versions_compatible_EqualityFirst(ver1, ver2) ==
    \/ ver1 = ver2
    \/ IF VersionReqParse(ver1) # ReqErr /\ VersionReqParse(ver2) # ReqErr
       THEN ProbeBoth(VersionReqParse(ver1), VersionReqParse(ver2))
       ELSE ver1 = any \/ ver2 = any

versions_compatible(ver1, ver2) ==
    IF VersionReqParse(ver1) # ReqErr /\ VersionReqParse(ver2) # ReqErr
    THEN ProbeBoth(VersionReqParse(ver1), VersionReqParse(ver2))
    ELSE ver1 = ver2 \/ ver1 = any \/ ver2 = any

\* ------------------------------------------------------ find_version_requirement
None == [some |-> FALSE]
Some(v) == [some |-> TRUE, value |-> v]

\* Lines 258-283 for one dependency string: the value returned, or None when the loop
\* goes on to the next string.
RequirementIn(dep_str, dep) ==
    IF dep_str = dep THEN Some(star)
    ELSE IF StartsWith(dep_str, dep)
         THEN (IF SliceFrom(dep_str, Len(dep)) # <<>>
               THEN Some(SliceFrom(dep_str, Len(dep)))
               ELSE None)
    ELSE IF Contains(dep_str, dep)
         THEN (IF Contains(FirstSplit(dep_str, OpChars), dep) /\ FirstIn(dep_str, OpChars) # -1
               THEN Some(SliceFrom(dep_str, FirstIn(dep_str, OpChars)))
               ELSE None)
    ELSE None

RECURSIVE FirstRequirement(_, _)
FirstRequirement(dep_list, dep) ==
    IF dep_list = <<>> THEN None
    ELSE IF RequirementIn(Head(dep_list), dep).some THEN RequirementIn(Head(dep_list), dep)
    ELSE FirstRequirement(Tail(dep_list), dep)

find_version_requirement(m, pkg, dep) ==
    IF pkg \in DOMAIN m THEN FirstRequirement(m[pkg], dep) ELSE None

\* --------------------------------------------------------------- parse_dependency
\* Length of the longest prefix of s made of characters of class.
PrefixLen(s, class) ==
    IF \E i \in 1..Len(s) : s[i] \notin class
    THEN (CHOOSE i \in 1..Len(s) : s[i] \notin class /\ \A j \in 1..(i - 1) : s[j] \in class) - 1
    ELSE Len(s)

\* The regular expression ^([a-zA-Z0-9_-]+)([<>=~^]+.+)?$ of line 460.
parse_dependency(dep_str) ==
    LET n == PrefixLen(dep_str, NameChars)
        rest == SliceFrom(dep_str, n)
    IN IF n = 0 THEN None
       ELSE IF rest = <<>> THEN Some([name |-> SubSeq(dep_str, 1, n), constraint |-> <<>>])
       ELSE IF /\ rest[1] \in OpChars
               /\ Len(rest) >= 2
               /\ \A i \in 1..Len(rest) : rest[i] # "\n"
            THEN Some([name |-> SubSeq(dep_str, 1, n), constraint |-> rest])
       ELSE None

\* ------------------------------------------------------------------- state
VARIABLES
    packages,         \* &[Package], by name
    dependency_map,   \* &HashMap<String, Vec<String>>
    key_order,        \* the iteration order of dependency_map (fixed per map)
    pc,               \* position in create_advanced_dependency_graph
    graph_nodes,      \* graph: node weights by NodeIndex
    graph_edges,      \* graph: edges in insertion order
    node_map,         \* HashMap<String, NodeIndex>
    direct_deps,      \* HashSet<String>
    ki,               \* index into key_order of the running loop
    t_edges,          \* find_transitive_dependencies: edges of the temporary graph
    t_pkg,            \* find_transitive_dependencies: index of the package being walked
    visited,          \* dfs_collect_deps: visited
    deps,             \* dfs_collect_deps: deps
    stack,            \* dfs_collect_deps: the call stack
    visits,           \* history: times each node was entered in the current walk
    walk_steps,       \* history: steps of dfs_collect_deps taken in the current walk
    transitive_deps,  \* HashMap<String, HashSet<String>>
    tr_todo,          \* keys of transitive_deps not yet iterated
    conflicts,        \* detect_conflicts: conflicts
    shared_deps,      \* detect_conflicts: shared_deps
    sd_todo,          \* keys of shared_deps not yet iterated
    cur_dep,          \* the (dep, dependents) entry of the running loop of line 221
    ci,               \* i of line 226, 1-based
    cj,               \* j of line 227, 1-based
    examined,         \* history: the index pairs compared so far, in order
    lpc,              \* position in calculate_graph_layout_vec
    layers,           \* calculate_graph_layout_vec: layers, node indexes
    assigned,         \* calculate_graph_layout_vec: assigned
    positions_vec,    \* calculate_graph_layout_vec: positions_vec
    max_width,        \* calculate_graph_layout_vec: max_width
    max_height,       \* calculate_graph_layout_vec: max_height
    passes,           \* history: passes of the loop of line 320 in the running call
    placed_last,      \* history: nodes the last pass pushed
    forced,           \* history: index of the layer filled by lines 347-353, or 0
    layout_calls,     \* history: calls of calculate_graph_layout_vec so far
    prev_layout,      \* history: what the previous call returned
    ui_pc,            \* InteractiveUI::run: "running", "quit" once the loop is left, "panicked"
    has_graph,        \* InteractiveUI: advanced_graph.is_some()
    packages_len,     \* InteractiveUI: analysis.packages.len()
    selected_tab,     \* InteractiveUI: selected_tab
    selected_package, \* InteractiveUI: selected_package
    graph_scroll,     \* InteractiveUI: graph_scroll (x, y)
    last_key,         \* history: the key handled last
    before_key,       \* history: selected_tab, selected_package, graph_scroll before that key
    lk_pc,            \* position in get_real_package_dependencies
    lk_packages,      \* get_real_package_dependencies: packages, name and channel
    lk_i,             \* index of the package of the running loop of line 62
    lk_method,        \* the method the loop body comes to next
    lk_dependencies,  \* get_real_package_dependencies: dependencies
    lk_success,       \* get_real_package_dependencies: success
    lk_map,           \* get_real_package_dependencies: dependency_map
    lk_tried,         \* history: the methods called for each package, with their success
    lk_first,         \* history: the first method that succeeded for each package, and its list
    lk_stored,        \* history: dependency_map when enhance_dependency_map is called
    lk_keys,          \* enhance_dependency_map: packages
    lk_k,             \* enhance_dependency_map: index into packages
    safety_db_cache,  \* SAFETY_DB_CACHE: the Option inside the Mutex
    sc_mutex,         \* SAFETY_DB_CACHE: the thread that holds the guard, or 0
    sc_pc,            \* position of each thread in check_pypi_security
    sc_calls,         \* history: calls each thread has begun
    sc_fetched,       \* history: the databases assigned to the cache, in order
    sc_failed,        \* history: fetches that failed
    sc_got,           \* history: what the calls of each thread cloned from the cache
    en_packages,      \* enrich_packages_parallel: packages, behind packages_ref
    en_input,         \* packages as the call received them; package_names holds their names and channels
    en_results,       \* what get_package_info_cached returns for each cache key
    en_pc,            \* position of the run of the closure for each item
    en_info,          \* info of line 34, for each item
    en_mutex          \* packages_ref: the item whose run holds the guard, or 0

uiVars == <<ui_pc, has_graph, packages_len, selected_tab, selected_package, graph_scroll,
            last_key, before_key>>
\* The state outside the graph engine.
lookupVars == <<lk_pc, lk_packages, lk_i, lk_method, lk_dependencies, lk_success, lk_map,
                lk_tried, lk_first, lk_stored, lk_keys, lk_k>>
cacheVars == <<safety_db_cache, sc_mutex, sc_pc, sc_calls, sc_fetched, sc_failed, sc_got>>
enrichVars == <<en_packages, en_input, en_results, en_pc, en_info, en_mutex>>
auxVars == <<uiVars, lookupVars, cacheVars, enrichVars>>

vars == <<packages, dependency_map, key_order, pc, graph_nodes, graph_edges, node_map,
          direct_deps, ki, t_edges, t_pkg, visited, deps, stack, visits,
          walk_steps, transitive_deps, tr_todo, conflicts, shared_deps, sd_todo, cur_dep, ci, cj,
          examined, lpc, layers, assigned, positions_vec, max_width, max_height, passes,
          placed_last, forced, layout_calls, prev_layout, auxVars>>

graphVars == <<graph_nodes, graph_edges, node_map, direct_deps>>
walkVars == <<visited, deps, stack, visits, walk_steps>>
inputVars == <<packages, dependency_map, key_order>>
closureVars == <<ki, t_edges, t_pkg, walkVars, transitive_deps, tr_todo>>
conflictVars == <<conflicts, shared_deps, sd_todo, cur_dep, ci, cj, examined>>
layoutVars == <<lpc, layers, assigned, positions_vec, max_width, max_height, passes,
                placed_last, forced, layout_calls, prev_layout>>
\* The state of the graph engine and of the layout.
coreVars == <<inputVars, pc, graphVars, closureVars, conflictVars, layoutVars>>
notUi == <<coreVars, lookupVars, cacheVars, enrichVars>>
notLookup == <<coreVars, uiVars, cacheVars, enrichVars>>
notCache == <<coreVars, uiVars, lookupVars, enrichVars>>
notEnrich == <<coreVars, uiVars, lookupVars, cacheVars>>

\* ------------------------------------------------------------------ inputs
PackageLists == {SubSeq(PkgOrder, 1, n) : n \in 0..Min(MaxPkgs, Len(PkgOrder))}

DependencyMaps(keys, strings, maxLen, maxSize) ==
    UNION {{m \in [ks -> SeqsUpTo(strings, maxLen)] : MapSize(m, ks) <= maxSize} :
           ks \in SUBSET keys}

InitOutputs ==
    /\ graph_nodes = <<>>
    /\ graph_edges = <<>>
    /\ node_map = <<>>
    /\ direct_deps = {}
    /\ ki = 1
    /\ t_edges = <<>>
    /\ t_pkg = 1
    /\ visited = {}
    /\ deps = {}
    /\ stack = <<>>
    /\ visits = <<>>
    /\ walk_steps = 0
    /\ transitive_deps = <<>>
    /\ tr_todo = {}
    /\ conflicts = <<>>
    /\ shared_deps = <<>>
    /\ sd_todo = {}
    /\ cur_dep = None
    /\ ci = 1
    /\ cj = 2
    /\ examined = <<>>

\* The layout has not been asked for.
LayoutIdle ==
    /\ lpc = "idle"
    /\ layers = <<>>
    /\ assigned = {}
    /\ positions_vec = <<>>
    /\ max_width = 0
    /\ max_height = 0
    /\ passes = 0
    /\ placed_last = 0
    /\ forced = 0
    /\ layout_calls = 0
    /\ prev_layout = <<>>

\* No interactive session.
UiIdle ==
    /\ ui_pc = "idle"
    /\ has_graph = FALSE
    /\ packages_len = 0
    /\ selected_tab = 0
    /\ selected_package = 0
    /\ graph_scroll = <<0, 0>>
    /\ last_key = "none"
    /\ before_key = [tab |-> 0, package |-> 0, scroll |-> <<0, 0>>]

\* No lookup of dependencies.
LookupIdle ==
    /\ lk_pc = "idle"
    /\ lk_packages = <<>>
    /\ lk_i = 1
    /\ lk_method = 1
    /\ lk_dependencies = <<>>
    /\ lk_success = FALSE
    /\ lk_map = <<>>
    /\ lk_tried = <<>>
    /\ lk_first = <<>>
    /\ lk_stored = <<>>
    /\ lk_keys = <<>>
    /\ lk_k = 1

\* No call of check_pypi_security.
CacheIdle ==
    /\ safety_db_cache = None
    /\ sc_mutex = 0
    /\ sc_pc = <<>>
    /\ sc_calls = <<>>
    /\ sc_fetched = <<>>
    /\ sc_failed = 0
    /\ sc_got = <<>>

\* No call of enrich_packages_parallel.
EnrichIdle ==
    /\ en_packages = <<>>
    /\ en_input = <<>>
    /\ en_results = <<>>
    /\ en_pc = <<>>
    /\ en_info = <<>>
    /\ en_mutex = 0

AuxIdle ==
    /\ UiIdle
    /\ LookupIdle
    /\ CacheIdle
    /\ EnrichIdle

\* The graph engine is not running.
CoreIdle ==
    /\ packages = <<>>
    /\ dependency_map = <<>>
    /\ key_order = <<>>
    /\ pc = "done"
    /\ InitOutputs
    /\ LayoutIdle

Init ==
    /\ packages \in PackageLists
    /\ dependency_map \in DependencyMaps(GraphKeys, GraphDepStrings, MaxDeps, MaxTotalDeps)
    /\ key_order \in Perms(DOMAIN dependency_map)
    /\ pc = "nodes"
    /\ InitOutputs
    /\ LayoutIdle
    /\ AuxIdle

\* ------------------------------------------------ create_advanced_dependency_graph
\* node_map after the loop over packages: the last index inserted under each name.
NodeMapOf(pkgs) ==
    [n \in Range(pkgs) |-> CHOOSE i \in 1..Len(pkgs) :
        pkgs[i] = n /\ \A j \in 1..Len(pkgs) : pkgs[j] = n => j <= i]

\* Mutant: the loop over the packages leaves direct_deps empty.
DirectDepsOf_None(pkgs) == {}

\* Line 63: direct_deps.insert(package.name.clone()) for every package.
DirectDepsOf(pkgs) == Range(pkgs)

AddNodes ==
    /\ pc = "nodes"
    /\ graph_nodes' = packages
    /\ node_map' = NodeMapOf(packages)
    /\ direct_deps' = DirectDepsOf(packages)
    /\ pc' = "direct"
    /\ ki' = 1
    /\ UNCHANGED <<auxVars, layoutVars, inputVars, graph_edges, t_edges, t_pkg, walkVars, transitive_deps,
                   tr_todo, conflictVars>>

\* Mutant: a dependency string that names no package is taken for the first package
\* instead of being skipped.
RECURSIVE EdgesOfList_UnknownToFirst(_, _, _, _)
EdgesOfList_UnknownToFirst(nm, from_idx, dep_list, label) ==
    IF dep_list = <<>> THEN <<>>
    ELSE <<[from |-> from_idx,
            to |-> IF Head(dep_list) \in DOMAIN nm THEN nm[Head(dep_list)] ELSE 1,
            label |-> label]>>
         \o EdgesOfList_UnknownToFirst(nm, from_idx, Tail(dep_list), label)

\* The edges one (pkg_name, deps) entry adds: one per dependency string that is a key
\* of node_map, in list order.
RECURSIVE EdgesOfList(_, _, _, _)
EdgesOfList(nm, from_idx, dep_list, label) ==
    IF dep_list = <<>> THEN <<>>
    ELSE (IF Head(dep_list) \in DOMAIN nm
          THEN <<[from |-> from_idx, to |-> nm[Head(dep_list)], label |-> label]>>
          ELSE <<>>)
         \o EdgesOfList(nm, from_idx, Tail(dep_list), label)

\* Mutant: a key that names no package gets a node index of its own instead of being
\* skipped.
EdgesOfEntry_PhantomKey(nm, pkg_name, dep_list, label) ==
    IF pkg_name \in DOMAIN nm
    THEN EdgesOfList(nm, nm[pkg_name], dep_list, label)
    ELSE EdgesOfList(nm, Cardinality(DOMAIN nm) + 1, dep_list, label)

EdgesOfEntry(nm, pkg_name, dep_list, label) ==
    IF pkg_name \in DOMAIN nm
    THEN EdgesOfList(nm, nm[pkg_name], dep_list, label)
    ELSE <<>>

AddDirectEdges ==
    /\ pc = "direct"
    /\ ki <= Len(key_order)
    /\ graph_edges' = graph_edges \o
          EdgesOfEntry(node_map, key_order[ki], dependency_map[key_order[ki]], "depends on")
    /\ ki' = ki + 1
    /\ UNCHANGED <<auxVars, layoutVars, inputVars, pc, graph_nodes, node_map, direct_deps, t_edges, t_pkg,
                   walkVars, transitive_deps, tr_todo, conflictVars>>

\* All entries of the map, in its iteration order.
RECURSIVE EdgesOfMap(_, _, _, _)
EdgesOfMap(nm, order, m, label) ==
    IF order = <<>> THEN <<>>
    ELSE EdgesOfEntry(nm, Head(order), m[Head(order)], label)
         \o EdgesOfMap(nm, Tail(order), m, label)

\* find_transitive_dependencies, lines 118-137: the temporary traversal graph.
BuildTraversalGraph ==
    /\ pc = "direct"
    /\ ki > Len(key_order)
    /\ t_edges' = EdgesOfMap(NodeMapOf(packages), key_order, dependency_map, "")
    /\ t_pkg' = 1
    /\ transitive_deps' = <<>>
    /\ pc' = "closure"
    /\ UNCHANGED <<auxVars, layoutVars, inputVars, graphVars, ki, walkVars, tr_todo, conflictVars>>

\* find_transitive_dependencies, lines 140-146: start the walk of one package.
StartWalk ==
    /\ pc = "closure"
    /\ t_pkg <= Len(packages)
    /\ visited' = {}
    /\ deps' = {}
    /\ visits' = [n \in 1..Len(packages) |-> 0]
    /\ walk_steps' = 0
    /\ stack' = IF packages[t_pkg] \in DOMAIN NodeMapOf(packages)
                THEN <<[node |-> NodeMapOf(packages)[packages[t_pkg]], entered |-> FALSE,
                        pending |-> <<>>]>>
                ELSE <<>>
    /\ pc' = "walk"
    /\ UNCHANGED <<auxVars, layoutVars, inputVars, graphVars, ki, t_edges, t_pkg, transitive_deps, tr_todo,
                   conflictVars>>

\* graph.edges(node): the targets of the outgoing edges of node, most recently added
\* edge first (petgraph's adjacency list).
RECURSIVE TargetsFrom(_, _)
TargetsFrom(edges, node) ==
    IF edges = <<>> THEN <<>>
    ELSE (IF Head(edges).from = node THEN <<Head(edges).to>> ELSE <<>>)
         \o TargetsFrom(Tail(edges), node)

Outgoing(edges, node) == Reverse(TargetsFrom(edges, node))

Top == stack[Len(stack)]
Pop == SubSeq(stack, 1, Len(stack) - 1)

\* Mutant: the visited check is missing.
AlreadyVisited_Never(node, seen) == FALSE

\* dfs_collect_deps, lines 172-174: the early return.
AlreadyVisited(node, seen) == node \in seen

DfsVisited ==
    /\ pc = "walk"
    /\ stack # <<>>
    /\ ~Top.entered
    /\ AlreadyVisited(Top.node, visited)
    /\ stack' = Pop
    /\ walk_steps' = walk_steps + 1
    /\ UNCHANGED <<auxVars, layoutVars, inputVars, pc, graphVars, ki, t_edges, t_pkg, visited, deps, visits,
                   transitive_deps, tr_todo, conflictVars>>

\* dfs_collect_deps, lines 176-181: mark, collect the name, start the edge loop.
DfsEnter ==
    /\ pc = "walk"
    /\ stack # <<>>
    /\ ~Top.entered
    /\ ~AlreadyVisited(Top.node, visited)
    /\ visited' = visited \cup {Top.node}
    /\ deps' = deps \cup {packages[Top.node]}
    /\ visits' = [visits EXCEPT ![Top.node] = @ + 1]
    /\ walk_steps' = walk_steps + 1
    /\ stack' = [stack EXCEPT ![Len(stack)] =
                    [node |-> Top.node, entered |-> TRUE,
                     pending |-> Outgoing(t_edges, Top.node)]]
    /\ UNCHANGED <<auxVars, layoutVars, inputVars, pc, graphVars, ki, t_edges, t_pkg, transitive_deps, tr_todo,
                   conflictVars>>

\* dfs_collect_deps, lines 181-184: the recursive call on the next neighbor.
DfsRecurse ==
    /\ pc = "walk"
    /\ stack # <<>>
    /\ Top.entered
    /\ Top.pending # <<>>
    /\ stack' = [stack EXCEPT ![Len(stack)].pending = Tail(@)]
                 \o <<[node |-> Head(Top.pending), entered |-> FALSE, pending |-> <<>>]>>
    /\ walk_steps' = walk_steps + 1
    /\ UNCHANGED <<auxVars, layoutVars, inputVars, pc, graphVars, ki, t_edges, t_pkg, visited, deps, visits,
                   transitive_deps, tr_todo, conflictVars>>

\* dfs_collect_deps, line 185: the edge loop is over, the call returns.
DfsReturn ==
    /\ pc = "walk"
    /\ stack # <<>>
    /\ Top.entered
    /\ Top.pending = <<>>
    /\ stack' = Pop
    /\ walk_steps' = walk_steps + 1
    /\ UNCHANGED <<auxVars, layoutVars, inputVars, pc, graphVars, ki, t_edges, t_pkg, visited, deps, visits,
                   transitive_deps, tr_todo, conflictVars>>

\* find_transitive_dependencies, lines 148-156: what is kept of the collected names.
DeclaredOf(m, name) == IF name \in DOMAIN m THEN Range(m[name]) ELSE {}

\* Mutant: the package itself is not removed from what the walk collected.
TransitiveOnly_KeepSelf(collected, name, m) == collected \ DeclaredOf(m, name)

TransitiveOnly(collected, name, m) == (collected \ {name}) \ DeclaredOf(m, name)

\* find_transitive_dependencies, lines 148-158: the walk of one package is over.
FinishWalk ==
    /\ pc = "walk"
    /\ stack = <<>>
    /\ transitive_deps' =
          [n \in DOMAIN transitive_deps \cup {packages[t_pkg]} |->
              IF n = packages[t_pkg]
              THEN TransitiveOnly(deps, packages[t_pkg], dependency_map)
              ELSE transitive_deps[n]]
    /\ t_pkg' = t_pkg + 1
    /\ pc' = "closure"
    /\ UNCHANGED <<auxVars, layoutVars, inputVars, graphVars, ki, t_edges, walkVars, tr_todo, conflictVars>>

\* find_transitive_dependencies returns (line 161); the loop of line 82 starts.
ClosureDone ==
    /\ pc = "closure"
    /\ t_pkg > Len(packages)
    /\ tr_todo' = DOMAIN transitive_deps
    /\ pc' = "transitive"
    /\ UNCHANGED <<auxVars, layoutVars, inputVars, graphVars, ki, t_edges, t_pkg, walkVars, transitive_deps,
                   conflictVars>>

\* direct_edge_exists, lines 107-109: any edge from -> to, whatever its label.
direct_edge_exists(edges, from, to) ==
    \E i \in 1..Len(edges) : edges[i].from = from /\ edges[i].to = to

\* Lines 84-91 for one package: the reachable names in the order the HashSet yields
\* them, each added unless an edge already connects the pair.
RECURSIVE AddTransitive(_, _, _, _)
AddTransitive(edges, nm, from_idx, dep_list) ==
    IF dep_list = <<>> THEN edges
    ELSE AddTransitive(
            IF Head(dep_list) \in DOMAIN nm
               /\ ~direct_edge_exists(edges, from_idx, nm[Head(dep_list)])
            THEN Append(edges, [from |-> from_idx, to |-> nm[Head(dep_list)],
                                label |-> "transitive"])
            ELSE edges,
            nm, from_idx, Tail(dep_list))

\* Lines 82-93: one entry of transitive_deps, in the map's arbitrary order.
AddTransitiveEdges ==
    /\ pc = "transitive"
    /\ \E pkg_name \in tr_todo :
          /\ \E order \in Perms(transitive_deps[pkg_name]) :
                graph_edges' = IF pkg_name \in DOMAIN node_map
                               THEN AddTransitive(graph_edges, node_map, node_map[pkg_name],
                                                  order)
                               ELSE graph_edges
          /\ tr_todo' = tr_todo \ {pkg_name}
    /\ UNCHANGED <<auxVars, layoutVars, inputVars, pc, graph_nodes, node_map, direct_deps, ki, t_edges, t_pkg,
                   walkVars, transitive_deps, conflictVars>>

TransitiveDone ==
    /\ pc = "transitive"
    /\ tr_todo = {}
    /\ pc' = "conflicts"
    /\ UNCHANGED <<auxVars, layoutVars, inputVars, graphVars, closureVars, conflictVars>>

\* --------------------------------------------------------------- detect_conflicts
\* shared_deps.entry(dep).or_insert_with(Vec::new).push(pkg), lines 213-216.
PushDependent(sd, dep, pkg) ==
    [d \in DOMAIN sd \cup {dep} |->
        IF d = dep THEN (IF dep \in DOMAIN sd THEN Append(sd[dep], pkg) ELSE <<pkg>>)
        ELSE sd[d]]

\* The key under which a dependency string is grouped (line 214).
SharedKey(dep) == dep

RECURSIVE PushList(_, _, _)
PushList(sd, pkg, dep_list) ==
    IF dep_list = <<>> THEN sd
    ELSE PushList(PushDependent(sd, SharedKey(Head(dep_list)), pkg), pkg, Tail(dep_list))

RECURSIVE SharedDepsOf(_, _, _)
SharedDepsOf(sd, order, m) ==
    IF order = <<>> THEN sd
    ELSE SharedDepsOf(PushList(sd, Head(order), m[Head(order)]), Tail(order), m)

\* Lines 192-218: the grouping of the dependents by dependency string.
BuildSharedDeps ==
    /\ pc = "conflicts"
    /\ conflicts' = <<>>
    /\ shared_deps' = SharedDepsOf(<<>>, key_order, dependency_map)
    /\ sd_todo' = DOMAIN SharedDepsOf(<<>>, key_order, dependency_map)
    /\ cur_dep' = None
    /\ examined' = <<>>
    /\ pc' = "pairs"
    /\ UNCHANGED <<auxVars, layoutVars, inputVars, graphVars, closureVars, ci, cj>>

\* Line 222: the entries that are skipped.
TooFewDependents(dependents) == Len(dependents) < 2

\* Lines 221-224: an entry with fewer than two dependents is skipped.
SkipSharedDep ==
    /\ pc = "pairs"
    /\ ~cur_dep.some
    /\ \E dep \in sd_todo :
          /\ TooFewDependents(shared_deps[dep])
          /\ sd_todo' = sd_todo \ {dep}
    /\ UNCHANGED <<auxVars, layoutVars, inputVars, pc, graphVars, closureVars, conflicts, shared_deps, cur_dep,
                   ci, cj, examined>>

\* Lines 221-227: an entry with two dependents or more starts the pair loops.
EnterSharedDep ==
    /\ pc = "pairs"
    /\ ~cur_dep.some
    /\ \E dep \in sd_todo :
          /\ ~TooFewDependents(shared_deps[dep])
          /\ sd_todo' = sd_todo \ {dep}
          /\ cur_dep' = Some(dep)
    /\ ci' = 1
    /\ cj' = 2
    /\ UNCHANGED <<auxVars, layoutVars, inputVars, pc, graphVars, closureVars, conflicts, shared_deps, examined>>

\* The format! of line 239: dep, a space, then ver1 and ver2 in parentheses around
\* the not-equal sign U+2260, written "/=" here as one character.
Description(dep, ver1, ver2) == dep \o <<" ", "(">> \o ver1 \o <<"/=">> \o ver2 \o <<")">>

\* Mutant: an incompatible pair is recorded in both orders.
PairConflicts_BothOrders(m, dep, pkg1, pkg2) ==
    LET r1 == find_version_requirement(m, pkg1, dep)
        r2 == find_version_requirement(m, pkg2, dep)
    IN IF r1.some /\ r2.some /\ ~versions_compatible(r1.value, r2.value)
       THEN <<<<pkg1, pkg2, Description(dep, r1.value, r2.value)>>,
              <<pkg2, pkg1, Description(dep, r2.value, r1.value)>>>>
       ELSE <<>>

\* Lines 231-242: the records one pair of dependents adds.
PairConflicts(m, dep, pkg1, pkg2) ==
    LET r1 == find_version_requirement(m, pkg1, dep)
        r2 == find_version_requirement(m, pkg2, dep)
    IN IF r1.some /\ r2.some /\ ~versions_compatible(r1.value, r2.value)
       THEN <<<<pkg1, pkg2, Description(dep, r1.value, r2.value)>>>>
       ELSE <<>>

\* Lines 226-243: one pair (i, j) of the dependents of the running entry.
ComparePair ==
    /\ pc = "pairs"
    /\ cur_dep.some
    /\ LET dep == cur_dep.value
           dependents == shared_deps[dep]
           n == Len(dependents)
       IN /\ conflicts' = conflicts \o
                PairConflicts(dependency_map, dep, dependents[ci], dependents[cj])
          /\ examined' = Append(examined,
                [dep |-> dep, i |-> ci, j |-> cj, pkg1 |-> dependents[ci],
                 pkg2 |-> dependents[cj],
                 ver1 |-> find_version_requirement(dependency_map, dependents[ci], dep),
                 ver2 |-> find_version_requirement(dependency_map, dependents[cj], dep),
                 conflict |->
                    PairConflicts(dependency_map, dep, dependents[ci], dependents[cj]) # <<>>])
          /\ IF cj < n
             THEN /\ cj' = cj + 1
                  /\ UNCHANGED <<ci, cur_dep>>
             ELSE IF ci + 1 < n
             THEN /\ ci' = ci + 1
                  /\ cj' = ci + 2
                  /\ UNCHANGED cur_dep
             ELSE /\ cur_dep' = None
                  /\ UNCHANGED <<ci, cj>>
    /\ UNCHANGED <<auxVars, layoutVars, inputVars, pc, graphVars, closureVars, shared_deps, sd_todo>>

\* Line 247: detect_conflicts returns.
ConflictsDone ==
    /\ pc = "pairs"
    /\ ~cur_dep.some
    /\ sd_todo = {}
    /\ pc' = "done"
    /\ UNCHANGED <<auxVars, layoutVars, inputVars, graphVars, closureVars, conflictVars>>

\* ------------------------------------------- calculate_graph_layout_vec
\* (src/src/interactive.rs).  The graph is graph_nodes and graph_edges; a layer holds
\* node indexes, the name of a node being graph_nodes[index].
horizontal_spacing == 15
vertical_spacing == 4

\* u16 arithmetic
U16(n) == n % 65536

\* Lines 308-314: the nodes without outgoing edges, in node_indices() order.
RECURSIVE LeafLayer(_, _, _)
LeafLayer(nodes, edges, i) ==
    IF i > Len(nodes) THEN <<>>
    ELSE (IF Outgoing(edges, i) = <<>> THEN <<i>> ELSE <<>>) \o LeafLayer(nodes, edges, i + 1)

NamesOf(nodes, layer) == {nodes[layer[k]] : k \in 1..Len(layer)}

\* Mutant: the set of an earlier call is reused.
InitialAssigned_Kept(old) == old

\* Line 304: assigned is a new, empty set, whatever an earlier call left.
InitialAssigned(old) == {}

\* Lines 300-317: the locals and the first layer.
LayoutStart ==
    /\ lpc = "layout"
    /\ LET layer == LeafLayer(graph_nodes, graph_edges, 1)
       IN /\ layers' = IF layer # <<>> THEN <<layer>> ELSE <<>>
          /\ assigned' = InitialAssigned(assigned) \cup NamesOf(graph_nodes, layer)
    /\ positions_vec' = <<>>
    /\ passes' = 0
    /\ placed_last' = 0
    /\ forced' = 0
    /\ lpc' = "layers"
    /\ UNCHANGED <<auxVars, inputVars, pc, graphVars, closureVars, conflictVars, max_width,
                   max_height, layout_calls, prev_layout>>

\* Lines 330-337: every neighbor along an outgoing edge of node i has its name in asg.
AllDepsAssigned(nodes, edges, i, asg) ==
    \A k \in 1..Len(Outgoing(edges, i)) : nodes[Outgoing(edges, i)[k]] \in asg

\* Lines 323-343: one sweep over the nodes from index i on; st holds next_layer and
\* assigned, which grows during the sweep.
RECURSIVE ReadyLayer(_, _, _, _)
ReadyLayer(nodes, edges, i, st) ==
    IF i > Len(nodes) THEN st
    ELSE ReadyLayer(nodes, edges, i + 1,
            IF nodes[i] \in st.assigned THEN st
            ELSE IF AllDepsAssigned(nodes, edges, i, st.assigned)
                 THEN [layer |-> Append(st.layer, i),
                       assigned |-> st.assigned \cup {nodes[i]}]
            ELSE st)

\* Lines 347-353: the sweep that takes every node whose name is not in assigned.
RECURSIVE RemainingLayer(_, _, _)
RemainingLayer(nodes, i, st) ==
    IF i > Len(nodes) THEN st
    ELSE RemainingLayer(nodes, i + 1,
            IF nodes[i] \notin st.assigned
            THEN [layer |-> Append(st.layer, i), assigned |-> st.assigned \cup {nodes[i]}]
            ELSE st)

\* Mutant: the loop does not stop on an empty layer.
LoopEnds_Never(next_layer) == FALSE

\* Lines 356-360: the break.
LoopEnds(next_layer) == next_layer = <<>>

\* The passes the model lets a call run: one more than any call needs.
MaxPasses == MaxLayoutNodes + 1

\* Lines 320-361: one pass of the while loop.
LayerPass ==
    /\ lpc = "layers"
    /\ Cardinality(assigned) < Len(graph_nodes)
    /\ passes < MaxPasses
    /\ LET ready == ReadyLayer(graph_nodes, graph_edges, 1,
                               [layer |-> <<>>, assigned |-> assigned])
           st == IF ready.layer = <<>> THEN RemainingLayer(graph_nodes, 1, ready) ELSE ready
       IN /\ layers' = IF st.layer # <<>> THEN Append(layers, st.layer) ELSE layers
          /\ assigned' = st.assigned
          /\ placed_last' = Len(st.layer)
          /\ forced' = IF ready.layer = <<>> /\ st.layer # <<>> THEN Len(layers) + 1
                       ELSE forced
          /\ lpc' = IF LoopEnds(st.layer) THEN "positions" ELSE "layers"
    /\ passes' = passes + 1
    /\ UNCHANGED <<auxVars, inputVars, pc, graphVars, closureVars, conflictVars, positions_vec,
                   max_width, max_height, layout_calls, prev_layout>>

\* Line 320: the loop condition fails.
LayersDone ==
    /\ lpc = "layers"
    /\ ~(Cardinality(assigned) < Len(graph_nodes))
    /\ lpc' = "positions"
    /\ UNCHANGED <<auxVars, inputVars, pc, graphVars, closureVars, conflictVars, layers, assigned,
                   positions_vec, max_width, max_height, passes, placed_last, forced,
                   layout_calls, prev_layout>>

\* Lines 370-375: the entries of one layer, node_idx counting from 0.
RECURSIVE LayerPositions(_, _, _, _)
LayerPositions(nodes, layer, layer_idx, node_idx) ==
    IF node_idx >= Len(layer) THEN <<>>
    ELSE <<[node |-> layer[node_idx + 1],
            name |-> nodes[layer[node_idx + 1]],
            x |-> U16(U16(node_idx * horizontal_spacing) + 2),
            y |-> U16(U16(layer_idx * vertical_spacing) + 2)]>>
         \o LayerPositions(nodes, layer, layer_idx, node_idx + 1)

\* Lines 369-379: all layers, layer_idx counting from 0.
RECURSIVE PositionsOf(_, _, _)
PositionsOf(nodes, lys, layer_idx) ==
    IF layer_idx >= Len(lys) THEN <<>>
    ELSE LayerPositions(nodes, lys[layer_idx + 1], layer_idx, 0)
         \o PositionsOf(nodes, lys, layer_idx + 1)

\* Lines 366 and 376: the running maximum of x + name.len(), from 0.
RECURSIVE WidthOf(_, _)
WidthOf(pos, acc) ==
    IF pos = <<>> THEN acc
    ELSE WidthOf(Tail(pos), Max(acc, U16(Head(pos).x + Len(Head(pos).name))))

\* Lines 367 and 377: the running maximum of y + 1, from 0.
RECURSIVE HeightOf(_, _)
HeightOf(pos, acc) ==
    IF pos = <<>> THEN acc
    ELSE HeightOf(Tail(pos), Max(acc, U16(Head(pos).y + 1)))

\* Lines 363-381: the positions and the bounding box; the call returns.
AssignPositions ==
    /\ lpc = "positions"
    /\ positions_vec' = PositionsOf(graph_nodes, layers, 0)
    /\ max_width' = WidthOf(PositionsOf(graph_nodes, layers, 0), 0)
    /\ max_height' = HeightOf(PositionsOf(graph_nodes, layers, 0), 0)
    /\ layout_calls' = layout_calls + 1
    /\ lpc' = "laid_out"
    /\ UNCHANGED <<auxVars, inputVars, pc, graphVars, closureVars, conflictVars, layers, assigned,
                   passes, placed_last, forced, prev_layout>>

\* The tuple a call returns.
Returned == <<positions_vec, max_width, max_height>>

\* render_deps_tab (line 156) asks for the layout of the same graph again on the next
\* frame.
Relayout ==
    /\ lpc = "laid_out"
    /\ layout_calls < MaxLayoutCalls
    /\ prev_layout' = Returned
    /\ lpc' = "layout"
    /\ UNCHANGED <<auxVars, inputVars, pc, graphVars, closureVars, conflictVars, layers, assigned,
                   positions_vec, max_width, max_height, passes, placed_last, forced,
                   layout_calls>>

\* ------------------------------------------------------------------ specifications
Next ==
    \/ AddNodes
    \/ AddDirectEdges
    \/ BuildTraversalGraph
    \/ StartWalk
    \/ DfsVisited
    \/ DfsEnter
    \/ DfsRecurse
    \/ DfsReturn
    \/ FinishWalk
    \/ ClosureDone
    \/ AddTransitiveEdges
    \/ TransitiveDone
    \/ BuildSharedDeps
    \/ SkipSharedDep
    \/ EnterSharedDep
    \/ ComparePair
    \/ ConflictsDone

\* create_advanced_dependency_graph on every package list and dependency map of the
\* bounds.
Spec == Init /\ [][Next]_vars

\* detect_conflicts called on its own.
InitConflicts ==
    /\ packages = ConflictPackages
    /\ dependency_map \in
          DependencyMaps(ConflictKeys, ConflictDepStrings, MaxConflictDeps, MaxConflictTotal)
             \cup ConflictScenarios
    /\ key_order \in Perms(DOMAIN dependency_map)
    /\ pc = "conflicts"
    /\ InitOutputs
    /\ LayoutIdle
    /\ AuxIdle

NextConflicts ==
    \/ BuildSharedDeps
    \/ SkipSharedDep
    \/ EnterSharedDep
    \/ ComparePair
    \/ ConflictsDone

SpecConflicts == InitConflicts /\ [][NextConflicts]_vars

\* The graphs fed to the layout: up to MaxLayoutNodes nodes named from LayoutNames and
\* up to MaxLayoutEdges edges between them, self-loops and parallel edges included.
LayoutEdges(n) ==
    SeqsUpTo([from : 1..n, to : 1..n, label : {"depends on"}], MaxLayoutEdges)

InitLayout ==
    /\ packages = <<>>
    /\ dependency_map = <<>>
    /\ key_order = <<>>
    /\ pc = "done"
    /\ graph_nodes \in SeqsUpTo(LayoutNames, MaxLayoutNodes)
    /\ graph_edges \in LayoutEdges(Len(graph_nodes))
    /\ node_map = <<>>
    /\ direct_deps = {}
    /\ ki = 1
    /\ t_edges = <<>>
    /\ t_pkg = 1
    /\ visited = {}
    /\ deps = {}
    /\ stack = <<>>
    /\ visits = <<>>
    /\ walk_steps = 0
    /\ transitive_deps = <<>>
    /\ tr_todo = {}
    /\ conflicts = <<>>
    /\ shared_deps = <<>>
    /\ sd_todo = {}
    /\ cur_dep = None
    /\ ci = 1
    /\ cj = 2
    /\ examined = <<>>
    /\ lpc = "layout"
    /\ layers = <<>>
    /\ assigned = {}
    /\ positions_vec = <<>>
    /\ max_width = 0
    /\ max_height = 0
    /\ passes = 0
    /\ placed_last = 0
    /\ forced = 0
    /\ layout_calls = 0
    /\ prev_layout = <<>>
    /\ AuxIdle

NextLayout ==
    \/ LayoutStart
    \/ LayerPass
    \/ LayersDone
    \/ AssignPositions
    \/ Relayout

\* calculate_graph_layout_vec, called for every frame on the same graph.
SpecLayout == InitLayout /\ [][NextLayout]_vars

\* ======================================================= InteractiveUI::run
\* (src/src/interactive.rs).  One action per key of the match of lines 63-106; the
\* drawing of line 60 reads the state and changes none of it.
MaxUiPackages == 3
MaxScroll == 10

U16Max == 65535
saturating_add(a, b) == Min(a + b, U16Max)
saturating_sub(a, b) == Max(a - b, 0)

\* Lines 66, 74, 85, 94, 100: the graph view takes the key.
InGraphView(tab, graph) == tab = 2 /\ graph

\* Mutant: the next tab without the wrap.
NextTab_NoWrap(tab) == tab + 1

\* Line 70.
NextTab(tab) == (tab + 1) % 4

\* Line 78.
PreviousTab(tab) == (tab + 3) % 4

\* The tab after an arrow key (lines 65-98): Right and Left change it unless the graph
\* view takes the key, Down and Up never do.
TabAfter(tab, key, graph) ==
    IF InGraphView(tab, graph) THEN tab
    ELSE IF key = "Right" THEN NextTab(tab)
    ELSE IF key = "Left" THEN PreviousTab(tab)
    ELSE tab

\* Line 84; the remainder panics when the list is empty.
NextPackage(sel, len) == (sel + 1) % len

\* Line 93; the remainder panics when the list is empty.
PreviousPackage(sel, len) == (sel + len - 1) % len

Remember(key) ==
    /\ last_key' = key
    /\ before_key' = [tab |-> selected_tab, package |-> selected_package, scroll |-> graph_scroll]

\* Lines 65-72.
KeyRight ==
    /\ ui_pc = "running"
    /\ Remember("Right")
    /\ selected_tab' = TabAfter(selected_tab, "Right", has_graph)
    /\ IF InGraphView(selected_tab, has_graph)
       THEN /\ graph_scroll[1] + 5 <= MaxScroll
            /\ graph_scroll' = <<saturating_add(graph_scroll[1], 5), graph_scroll[2]>>
       ELSE UNCHANGED graph_scroll
    /\ UNCHANGED <<notUi, ui_pc, has_graph, packages_len, selected_package>>

\* Lines 73-80.
KeyLeft ==
    /\ ui_pc = "running"
    /\ Remember("Left")
    /\ selected_tab' = TabAfter(selected_tab, "Left", has_graph)
    /\ IF InGraphView(selected_tab, has_graph)
       THEN graph_scroll' = <<saturating_sub(graph_scroll[1], 5), graph_scroll[2]>>
       ELSE UNCHANGED graph_scroll
    /\ UNCHANGED <<notUi, ui_pc, has_graph, packages_len, selected_package>>

\* Lines 81-89.
KeyDown ==
    /\ ui_pc = "running"
    /\ Remember("Down")
    /\ selected_tab' = TabAfter(selected_tab, "Down", has_graph)
    /\ IF selected_tab = 1
       THEN IF packages_len = 0
            THEN /\ ui_pc' = "panicked"
                 /\ UNCHANGED <<selected_package, graph_scroll>>
            ELSE /\ selected_package' = NextPackage(selected_package, packages_len)
                 /\ UNCHANGED <<ui_pc, graph_scroll>>
       ELSE IF InGraphView(selected_tab, has_graph)
            THEN /\ graph_scroll[2] + 3 <= MaxScroll
                 /\ graph_scroll' = <<graph_scroll[1], saturating_add(graph_scroll[2], 3)>>
                 /\ UNCHANGED <<ui_pc, selected_package>>
            ELSE UNCHANGED <<ui_pc, selected_package, graph_scroll>>
    /\ UNCHANGED <<notUi, has_graph, packages_len>>

\* Lines 90-98.
KeyUp ==
    /\ ui_pc = "running"
    /\ Remember("Up")
    /\ selected_tab' = TabAfter(selected_tab, "Up", has_graph)
    /\ IF selected_tab = 1
       THEN IF packages_len = 0
            THEN /\ ui_pc' = "panicked"
                 /\ UNCHANGED <<selected_package, graph_scroll>>
            ELSE /\ selected_package' = PreviousPackage(selected_package, packages_len)
                 /\ UNCHANGED <<ui_pc, graph_scroll>>
       ELSE IF InGraphView(selected_tab, has_graph)
            THEN /\ graph_scroll' = <<graph_scroll[1], saturating_sub(graph_scroll[2], 3)>>
                 /\ UNCHANGED <<ui_pc, selected_package>>
            ELSE UNCHANGED <<ui_pc, selected_package, graph_scroll>>
    /\ UNCHANGED <<notUi, has_graph, packages_len>>

\* Lines 99-104.
KeyHome ==
    /\ ui_pc = "running"
    /\ Remember("Home")
    /\ IF InGraphView(selected_tab, has_graph)
       THEN graph_scroll' = <<0, 0>>
       ELSE UNCHANGED graph_scroll
    /\ UNCHANGED <<notUi, ui_pc, has_graph, packages_len, selected_tab, selected_package>>

\* Line 105: any other key.
KeyOther ==
    /\ ui_pc = "running"
    /\ Remember("Other")
    /\ UNCHANGED <<notUi, ui_pc, has_graph, packages_len, selected_tab, selected_package,
                   graph_scroll>>

\* Line 64: 'q' leaves the loop.
KeyQuit ==
    /\ ui_pc = "running"
    /\ Remember("q")
    /\ ui_pc' = "quit"
    /\ UNCHANGED <<notUi, has_graph, packages_len, selected_tab, selected_package, graph_scroll>>

\* Lines 39-49: InteractiveUI::new, on any analysis and with or without a graph.
InitUI ==
    /\ CoreIdle
    /\ LookupIdle
    /\ CacheIdle
    /\ EnrichIdle
    /\ ui_pc = "running"
    /\ has_graph \in BOOLEAN
    /\ packages_len \in 0..MaxUiPackages
    /\ selected_tab = 0
    /\ selected_package = 0
    /\ graph_scroll = <<0, 0>>
    /\ last_key = "none"
    /\ before_key = [tab |-> 0, package |-> 0, scroll |-> <<0, 0>>]

NextUI ==
    \/ KeyRight
    \/ KeyLeft
    \/ KeyDown
    \/ KeyUp
    \/ KeyHome
    \/ KeyOther
    \/ KeyQuit

SpecUI == InitUI /\ [][NextUI]_vars

\* ============================================= get_real_package_dependencies
\* (src/src/analysis.rs).  Package and dependency names are whole strings here: the
\* function compares and copies them and never looks inside.  The four external
\* methods (a subprocess, two HTTP APIs, the conda-meta files) fail or return any
\* list, the empty list included.
MaxLookupPkgs == 2
MaxLookupDeps == 1

LookupNames == {"mylib", "pandas", "pytorch"}
LookupChannels == {None, Some("pip")}
LookupDepNames == {"pandas", "numpy"}

LookupPackages ==
    {ps \in SeqsUpTo([name : LookupNames, channel : LookupChannels], MaxLookupPkgs) :
        \A i, j \in 1..Len(ps) : ps[i].name = ps[j].name => i = j}

\* What a call of one of the external methods returns: Err, or Ok of a list.
Err == [ok |-> FALSE]
Ok(list) == [ok |-> TRUE, deps |-> list]
MethodResults == {Err} \cup {Ok(list) : list \in SeqsUpTo(LookupDepNames, MaxLookupDeps)}

\* Lines 380-392.
get_common_package_dependencies(package_name) ==
    CASE package_name = "pandas" -> Some(<<"numpy", "python", "python-dateutil", "pytz">>)
      [] package_name = "matplotlib" -> Some(<<"numpy", "python", "pillow", "cycler">>)
      [] package_name = "scikit-learn" -> Some(<<"numpy", "scipy", "python", "joblib">>)
      [] package_name = "tensorflow" -> Some(<<"numpy", "python", "protobuf", "absl-py">>)
      [] package_name = "pytorch" -> Some(<<"python", "numpy">>)
      [] package_name = "jupyterlab" -> Some(<<"python", "jupyter-core", "ipython">>)
      [] OTHER -> None

\* HashMap::insert.
Insert(m, k, v) == (k :> v) @@ m

\* The match arms of lines 67-74 (and 78-85, 90-97, 102-109): Ok assigns dependencies
\* and success, Err only logs.
Attempt(method, result) ==
    /\ lk_tried' = [lk_tried EXCEPT ![lk_i] = Append(@, [method |-> method, ok |-> result.ok])]
    /\ IF result.ok
       THEN /\ lk_dependencies' = result.deps
            /\ lk_success' = TRUE
            /\ lk_first' = [lk_first EXCEPT ![lk_i] = Some([method |-> method, deps |-> result.deps])]
       ELSE UNCHANGED <<lk_dependencies, lk_success, lk_first>>

NoAttempt == UNCHANGED <<lk_tried, lk_dependencies, lk_success, lk_first>>

\* Lines 66-74, Method 1: conda info.
TryCondaInfo ==
    /\ lk_pc = "methods"
    /\ lk_i <= Len(lk_packages)
    /\ lk_method = 1
    /\ \E result \in MethodResults : Attempt(1, result)
    /\ lk_method' = 2
    /\ UNCHANGED <<notLookup, lk_pc, lk_packages, lk_i, lk_map, lk_stored, lk_keys, lk_k>>

\* Lines 76-86, Method 2: the Anaconda API, when nothing succeeded yet.
TryAnacondaApi ==
    /\ lk_pc = "methods"
    /\ lk_method = 2
    /\ IF ~lk_success
       THEN \E result \in MethodResults : Attempt(2, result)
       ELSE NoAttempt
    /\ lk_method' = 3
    /\ UNCHANGED <<notLookup, lk_pc, lk_packages, lk_i, lk_map, lk_stored, lk_keys, lk_k>>

\* Lines 88-98, Method 3: the PyPI API, for a pip package when nothing succeeded yet.
TryPyPI ==
    /\ lk_pc = "methods"
    /\ lk_method = 3
    /\ IF ~lk_success /\ lk_packages[lk_i].channel = Some("pip")
       THEN \E result \in MethodResults : Attempt(3, result)
       ELSE NoAttempt
    /\ lk_method' = 4
    /\ UNCHANGED <<notLookup, lk_pc, lk_packages, lk_i, lk_map, lk_stored, lk_keys, lk_k>>

\* Lines 100-110, Method 4: the conda-meta files, when nothing succeeded yet.
TryCondaMeta ==
    /\ lk_pc = "methods"
    /\ lk_method = 4
    /\ IF ~lk_success
       THEN \E result \in MethodResults : Attempt(4, result)
       ELSE NoAttempt
    /\ lk_method' = 5
    /\ UNCHANGED <<notLookup, lk_pc, lk_packages, lk_i, lk_map, lk_stored, lk_keys, lk_k>>

\* Mutant: the list is stored only when a method succeeded.
Stored_OnlyOnSuccess(m, name, dependencies, success) ==
    IF success THEN Insert(m, name, dependencies) ELSE m

\* Line 127: the list is stored whether a method succeeded or not.
Stored(m, name, dependencies, success) == Insert(m, name, dependencies)

\* Lines 112-127, Method 5 and the end of the loop body: the table of common packages
\* when nothing succeeded yet, then the insert of line 127.
TryCommonAndStore ==
    /\ lk_pc = "methods"
    /\ lk_method = 5
    /\ LET name == lk_packages[lk_i].name
           common == get_common_package_dependencies(name)
           hit == ~lk_success /\ common.some
           dependencies == IF hit THEN common.value ELSE lk_dependencies
           success == lk_success \/ hit
       IN /\ lk_tried' = IF lk_success THEN lk_tried
                         ELSE [lk_tried EXCEPT ![lk_i] = Append(@, [method |-> 5, ok |-> hit])]
          /\ lk_first' = IF hit
                         THEN [lk_first EXCEPT ![lk_i] = Some([method |-> 5, deps |-> common.value])]
                         ELSE lk_first
          /\ lk_map' = Stored(lk_map, name, dependencies, success)
    /\ lk_i' = lk_i + 1
    /\ lk_method' = 1
    /\ lk_dependencies' = <<>>
    /\ lk_success' = FALSE
    /\ UNCHANGED <<notLookup, lk_pc, lk_packages, lk_stored, lk_keys, lk_k>>

\* Line 131 and line 259: the loop over the packages is over; enhance_dependency_map
\* copies the keys, in the order of the map's iteration.
StartEnhance ==
    /\ lk_pc = "methods"
    /\ lk_i > Len(lk_packages)
    /\ lk_stored' = lk_map
    /\ \E order \in Perms(DOMAIN lk_map) : lk_keys' = order
    /\ lk_k' = 1
    /\ lk_pc' = "enhance"
    /\ UNCHANGED <<notLookup, lk_packages, lk_i, lk_method, lk_dependencies, lk_success, lk_map,
                   lk_tried, lk_first>>

\* Mutant: every listed dependency is given the list of the table.
NeedsDependencies_Always(m, dep) == TRUE

\* Line 269: the dependency has no entry, or an empty one.
NeedsDependencies(m, dep) == dep \notin DOMAIN m \/ m[dep] = <<>>

\* Lines 266-274: the loop over the dependencies of one package.
RECURSIVE EnhanceDeps(_, _)
EnhanceDeps(m, list) ==
    IF list = <<>> THEN m
    ELSE LET dep == Head(list)
             common == get_common_package_dependencies(dep)
         IN EnhanceDeps(IF NeedsDependencies(m, dep) /\ common.some
                        THEN Insert(m, dep, common.value)
                        ELSE m,
                        Tail(list))

\* Lines 262-276: one package of the copied keys.
EnhancePackage ==
    /\ lk_pc = "enhance"
    /\ lk_k <= Len(lk_keys)
    /\ lk_map' = IF lk_keys[lk_k] \in DOMAIN lk_map
                 THEN EnhanceDeps(lk_map, lk_map[lk_keys[lk_k]])
                 ELSE lk_map
    /\ lk_k' = lk_k + 1
    /\ UNCHANGED <<notLookup, lk_pc, lk_packages, lk_i, lk_method, lk_dependencies, lk_success,
                   lk_tried, lk_first, lk_stored, lk_keys>>

\* Lines 278 and 133: enhance_dependency_map is over and the map is returned.
ReturnMap ==
    /\ lk_pc = "enhance"
    /\ lk_k > Len(lk_keys)
    /\ lk_pc' = "done"
    /\ UNCHANGED <<notLookup, lk_packages, lk_i, lk_method, lk_dependencies, lk_success, lk_map,
                   lk_tried, lk_first, lk_stored, lk_keys, lk_k>>

\* Lines 54-64: the call, on any list of packages.
InitLookup ==
    /\ CoreIdle
    /\ UiIdle
    /\ CacheIdle
    /\ EnrichIdle
    /\ lk_pc = "methods"
    /\ lk_packages \in LookupPackages
    /\ lk_i = 1
    /\ lk_method = 1
    /\ lk_dependencies = <<>>
    /\ lk_success = FALSE
    /\ lk_map = <<>>
    /\ lk_tried = [i \in 1..Len(lk_packages) |-> <<>>]
    /\ lk_first = [i \in 1..Len(lk_packages) |-> None]
    /\ lk_stored = <<>>
    /\ lk_keys = <<>>
    /\ lk_k = 1

NextLookup ==
    \/ TryCondaInfo
    \/ TryAnacondaApi
    \/ TryPyPI
    \/ TryCondaMeta
    \/ TryCommonAndStore
    \/ StartEnhance
    \/ EnhancePackage
    \/ ReturnMap

SpecLookup == InitLookup /\ [][NextLookup]_vars

\* ===================================================== check_pypi_security
\* (src/src/advanced_analysis.rs, lines 31-34 and 634-691): the block of lines 647-667
\* run by several threads at a time.  A thread is "idle" between calls, at "lock" when
\* it waits for SAFETY_DB_CACHE.lock(), at "fetch" when it holds the guard and found
\* the cache empty, at "read" when it holds the guard of a populated cache.
MaxThreads == 2
MaxCalls == 2

Threads == 1..MaxThreads
\* What the Safety DB URL serves, which may change from one request to the next.
SafetyDbs == {"db1", "db2"}

\* Mutant: the lock is granted whoever holds it.
CanLock_Always(holder) == TRUE

\* Mutex::lock returns once no thread holds the guard.
CanLock(holder) == holder = 0

\* Line 634: a call begins.
CallCheck(t) ==
    /\ sc_pc[t] = "idle"
    /\ sc_calls[t] < MaxCalls
    /\ sc_calls' = [sc_calls EXCEPT ![t] = @ + 1]
    /\ sc_pc' = [sc_pc EXCEPT ![t] = "lock"]
    /\ UNCHANGED <<notCache, safety_db_cache, sc_mutex, sc_fetched, sc_failed, sc_got>>

\* Lines 648-650: the guard is taken and the cache is tested.
LockCache(t) ==
    /\ sc_pc[t] = "lock"
    /\ CanLock(sc_mutex)
    /\ sc_mutex' = t
    /\ sc_pc' = [sc_pc EXCEPT ![t] = IF safety_db_cache.some THEN "read" ELSE "fetch"]
    /\ UNCHANGED <<notCache, safety_db_cache, sc_calls, sc_fetched, sc_failed, sc_got>>

\* Lines 652-661: the request, its status or its parsing fails; the call returns Err
\* and the guard is dropped.
FetchFails(t) ==
    /\ sc_pc[t] = "fetch"
    /\ sc_failed' = sc_failed + 1
    /\ sc_mutex' = IF sc_mutex = t THEN 0 ELSE sc_mutex
    /\ sc_pc' = [sc_pc EXCEPT ![t] = "idle"]
    /\ UNCHANGED <<notCache, safety_db_cache, sc_calls, sc_fetched, sc_got>>

\* Lines 652-663: the request succeeds and the cache is assigned.
FetchSucceeds(t) ==
    /\ sc_pc[t] = "fetch"
    /\ \E db \in SafetyDbs :
          /\ safety_db_cache' = Some(db)
          /\ sc_fetched' = Append(sc_fetched, db)
    /\ sc_pc' = [sc_pc EXCEPT ![t] = "read"]
    /\ UNCHANGED <<notCache, sc_mutex, sc_calls, sc_failed, sc_got>>

\* Lines 666-667: the cache is cloned and the guard is dropped; the rest of the call
\* works on the clone.
ReadCache(t) ==
    /\ sc_pc[t] = "read"
    /\ sc_got' = [sc_got EXCEPT ![t] = Append(@, safety_db_cache)]
    /\ sc_mutex' = IF sc_mutex = t THEN 0 ELSE sc_mutex
    /\ sc_pc' = [sc_pc EXCEPT ![t] = "idle"]
    /\ UNCHANGED <<notCache, safety_db_cache, sc_calls, sc_fetched, sc_failed>>

\* Lines 31-34: the cache starts empty and unlocked.
InitCache ==
    /\ CoreIdle
    /\ UiIdle
    /\ LookupIdle
    /\ EnrichIdle
    /\ safety_db_cache = None
    /\ sc_mutex = 0
    /\ sc_pc = [t \in Threads |-> "idle"]
    /\ sc_calls = [t \in Threads |-> 0]
    /\ sc_fetched = <<>>
    /\ sc_failed = 0
    /\ sc_got = [t \in Threads |-> <<>>]

NextCache ==
    \E t \in Threads :
       \/ CallCheck(t)
       \/ LockCache(t)
       \/ FetchFails(t)
       \/ FetchSucceeds(t)
       \/ ReadCache(t)

SpecCache == InitCache /\ [][NextCache]_vars

\* ================================================= enrich_packages_parallel
\* (src/src/performance.rs).  The closure of lines 23-48 runs once for every item of
\* package_names, the runs interleaving in any way; a run is at "todo" before it
\* starts, at "lookup" before the call of line 33, at "lock" when it waits for the
\* guard of packages_ref, at "update" when it holds it, and "done" afterwards.
\* Version strings are made of digits, letters, '.', '+' and '-'.
MaxEnrichPkgs == 2

v_1_0 == <<"1", ".", "0">>
v_1_0_0 == <<"1", ".", "0", ".", "0">>
v_2_0_0 == <<"2", ".", "0", ".", "0">>
unknown == <<"u", "n", "k", "n", "o", "w", "n">>

EnrichNames == {numpy, <<>>, python_ge3}
EnrichChannels == {None, Some("conda-forge"), Some("pip")}
EnrichVersions == {None, Some(v_1_0), Some(v_2_0_0)}
\* The packages handed to enrich_packages_parallel: not yet enriched.
EnrichPackage ==
    [name : EnrichNames, channel : EnrichChannels, version : EnrichVersions,
     is_outdated : {FALSE}, latest_version : {None}, size : {Some(7)}]
\* PackageInfo, the fields update_package_with_info reads (conda_api.rs, lines 17-26;
\* latest_version is "unknown" when the response has none, line 66).
PackageInfos == [latest_version : {v_1_0_0, unknown}, size : {None, Some(9)}]
InfoResults == {Err} \cup {[ok |-> TRUE, info |-> info] : info \in PackageInfos}

\* Line 80: the key of the cache of get_package_info_cached, which is the request
\* get_package_info makes (conda_api.rs, lines 30-31).
CacheKey(name, channel) == <<name, IF channel.some THEN channel.value ELSE "conda-forge">>

KeysOf(pkgs) == {CacheKey(pkgs[i].name, pkgs[i].channel) : i \in 1..Len(pkgs)}

\* Lines 100-121.
normalize_conda_version(version) ==
    LET plus == FirstIn(version, {"+"})
        dash == FirstIn(version, {"-"})
        version_without_build ==
            IF plus # -1 THEN SubSeq(version, 1, plus)
            ELSE IF dash # -1 /\ ~StartsWith(version, <<"0", "-">>) THEN SubSeq(version, 1, dash)
            ELSE version
        parts == SplitDots(version_without_build)
    IN IF Len(parts) = 1 THEN parts[1] \o <<".", "0", ".", "0">>
       ELSE IF Len(parts) = 2 THEN parts[1] \o <<".">> \o parts[2] \o <<".", "0">>
       ELSE version_without_build

\* semver::Version::parse (line 91), for a string without pre-release and build
\* parts: three numeric identifiers.
VersionParse(s) ==
    LET parts == SplitDots(s)
    IN IF Len(parts) = 3 /\ \A i \in 1..3 : IsNumeric(parts[i])
       THEN Some(<<NumberOf(parts[1]), NumberOf(parts[2]), NumberOf(parts[3])>>)
       ELSE None

\* Lines 89-95.
parse_version_cached(version_str) == VersionParse(normalize_conda_version(version_str))

\* The order of semver::Version (line 62).
VersionLess(a, b) ==
    \/ a[1] < b[1]
    \/ a[1] = b[1] /\ a[2] < b[2]
    \/ a[1] = b[1] /\ a[2] = b[2] /\ a[3] < b[3]

\* Lines 57-66: is_outdated after the update.
IsOutdated(package, info) ==
    IF ~package.version.some THEN package.is_outdated
    ELSE LET current == parse_version_cached(package.version.value)
             latest == parse_version_cached(info.latest_version)
         IN IF current.some /\ latest.some
            THEN VersionLess(current.value, latest.value)
            ELSE package.version.value # info.latest_version

\* Lines 55-74.
update_package_with_info(package, info) ==
    [package EXCEPT !.is_outdated = IsOutdated(package, info),
                    !.latest_version = Some(info.latest_version),
                    !.size = info.size]

\* The items of package_names, by position.
EnrichItems == 1..MaxEnrichPkgs

\* Mutant: a package with an empty name is looked up like the others.
Skipped_OnlyOperators(name) == Contains(name, <<">">>)

\* Line 25: the items the closure returns on at once.
Skipped(name) == name = <<>> \/ Contains(name, <<">">>)

\* Mutant: every run updates the package after its own.
TargetIndex_Next(i) == i + 1

\* Line 37: get_mut(*i), the index of the item.
TargetIndex(i) == i

\* Lines 23-31: a run starts; it returns at once for a skipped name.
StartItem(i) ==
    /\ i \in DOMAIN en_pc
    /\ en_pc[i] = "todo"
    /\ en_pc' = [en_pc EXCEPT ![i] = IF Skipped(en_input[i].name) THEN "done" ELSE "lookup"]
    /\ UNCHANGED <<notEnrich, en_packages, en_input, en_results, en_info, en_mutex>>

\* Lines 33-34 and 44-46: the lookup for the item's name and channel.
LookupItem(i) ==
    /\ i \in DOMAIN en_pc
    /\ en_pc[i] = "lookup"
    /\ LET result == en_results[CacheKey(en_input[i].name, en_input[i].channel)]
       IN IF result.ok
          THEN /\ en_info' = [en_info EXCEPT ![i] = Some(result.info)]
               /\ en_pc' = [en_pc EXCEPT ![i] = "lock"]
          ELSE /\ en_pc' = [en_pc EXCEPT ![i] = "done"]
               /\ UNCHANGED en_info
    /\ UNCHANGED <<notEnrich, en_packages, en_input, en_results, en_mutex>>

\* Line 36: the guard of packages_ref is taken.
LockPackages(i) ==
    /\ i \in DOMAIN en_pc
    /\ en_pc[i] = "lock"
    /\ CanLock(en_mutex)
    /\ en_mutex' = i
    /\ en_pc' = [en_pc EXCEPT ![i] = "update"]
    /\ UNCHANGED <<notEnrich, en_packages, en_input, en_results, en_info>>

\* Lines 37-42: the package of the item is updated and the guard dropped.
UpdateItem(i) ==
    /\ i \in DOMAIN en_pc
    /\ en_pc[i] = "update"
    /\ en_packages' =
          IF TargetIndex(i) \in 1..Len(en_packages)
          THEN [en_packages EXCEPT ![TargetIndex(i)] =
                   update_package_with_info(@, en_info[i].value)]
          ELSE en_packages
    /\ en_mutex' = 0
    /\ en_pc' = [en_pc EXCEPT ![i] = "done"]
    /\ UNCHANGED <<notEnrich, en_input, en_results, en_info>>

\* Lines 11-20: the call, on any list of packages; the lookup of a name and channel
\* gives the same result every time it is made.
InitEnrich ==
    /\ CoreIdle
    /\ UiIdle
    /\ LookupIdle
    /\ CacheIdle
    /\ en_input \in SeqsUpTo(EnrichPackage, MaxEnrichPkgs)
    /\ en_packages = en_input
    /\ en_results \in [KeysOf(en_input) -> InfoResults]
    /\ en_pc = [i \in 1..Len(en_input) |-> "todo"]
    /\ en_info = [i \in 1..Len(en_input) |-> None]
    /\ en_mutex = 0

NextEnrich ==
    \E i \in EnrichItems :
       \/ StartItem(i)
       \/ LookupItem(i)
       \/ LockPackages(i)
       \/ UpdateItem(i)

SpecEnrich == InitEnrich /\ [][NextEnrich]_vars

\* ======================================================================== claims
\* The graph is complete once the loop of line 82 is over.
GraphBuilt == pc \in {"conflicts", "pairs", "done"}

EdgeIndexes == 1..Len(graph_edges)

InGraph(k) ==
    /\ graph_edges[k].from \in 1..Len(graph_nodes)
    /\ graph_edges[k].to \in 1..Len(graph_nodes)

\* The edges from the node named p to the node named q with the given label.
EdgesBetween(p, q, label) ==
    {k \in EdgeIndexes : /\ InGraph(k)
                         /\ graph_nodes[graph_edges[k].from] = p
                         /\ graph_nodes[graph_edges[k].to] = q
                         /\ graph_edges[k].label = label}

HasEdge(p, q, label) == EdgesBetween(p, q, label) # {}

\* The pairs of names joined by a direct edge, and reachability along them.
DirectRel == {<<p, q>> \in Range(packages) \X Range(packages) : HasEdge(p, q, "depends on")}

RECURSIVE Closure(_, _)
Closure(set, rel) ==
    LET more == set \cup {q \in Range(packages) : \E p \in set : <<p, q>> \in rel}
    IN IF more = set THEN set ELSE Closure(more, rel)

\* The names reachable from p by one direct edge or more.
ReachableFrom(p) == Closure({q \in Range(packages) : <<p, q>> \in DirectRel}, DirectRel)

\* The dependency map declares q as a dependency of p: a string of p's list parses
\* (parse_dependency) to the name q.
Declares(p, q) ==
    /\ p \in DOMAIN dependency_map
    /\ \E i \in 1..Len(dependency_map[p]) :
          /\ parse_dependency(dependency_map[p][i]).some
          /\ parse_dependency(dependency_map[p][i]).value.name = q

\* C1: in every state of the construction, the nodes are the packages of the package
\* list, in order, and both endpoints of every edge are such nodes: no key and no
\* dependency string that names no package adds a node or an edge.
C1_NoDanglingEdges ==
    /\ Len(graph_nodes) <= Len(packages)
    /\ \A i \in 1..Len(graph_nodes) : graph_nodes[i] = packages[i]
    /\ \A k \in EdgeIndexes : InGraph(k)

\* C1 witness: a finished graph with edges, built from a map with a key that names no
\* package and a dependency string that names no package.
C1_Witness ==
    /\ pc = "done"
    /\ graph_edges # <<>>
    /\ \E key \in DOMAIN dependency_map :
          key \notin Range(packages) /\ dependency_map[key] # <<>>
    /\ \E key \in DOMAIN dependency_map \cap Range(packages) :
          \E dep \in Range(dependency_map[key]) : dep \notin Range(packages)

\* C2: at most one edge joins any ordered pair of nodes, and a pair with a declared
\* dependency is joined by a direct edge only.
C2_AtMostOneEdgePerPair ==
    /\ \A i, j \in EdgeIndexes :
          (graph_edges[i].from = graph_edges[j].from /\ graph_edges[i].to = graph_edges[j].to)
              => i = j
    /\ GraphBuilt =>
          \A p, q \in Range(packages) :
              HasEdge(p, q, "depends on") => ~HasEdge(p, q, "transitive")

\* C3: once the graph is built, every dependency string of a package's list that
\* parses to the name of a package has a direct edge from the package to it.
C3_DirectEdgePerParsedSpec ==
    GraphBuilt =>
        \A p, q \in Range(packages) : Declares(p, q) => HasEdge(p, q, "depends on")

\* C4: once the graph is built, there is a transitive edge p -> q exactly when q is
\* reachable from p along direct edges, q is not p, q is not a declared dependency of
\* p and no direct edge p -> q exists.
C4_TransitiveEdgesExact ==
    GraphBuilt =>
        \A p, q \in Range(packages) :
            HasEdge(p, q, "transitive") <=>
                (/\ q \in ReachableFrom(p)
                 /\ q # p
                 /\ ~Declares(p, q)
                 /\ ~HasEdge(p, q, "depends on"))

\* C5: no package is in the reachable set computed for it, and no transitive edge
\* joins a node to itself.
C5_NotInOwnClosure ==
    /\ \A p \in DOMAIN transitive_deps : p \notin transitive_deps[p]
    /\ \A k \in EdgeIndexes :
          graph_edges[k].label = "transitive" => graph_edges[k].from # graph_edges[k].to

\* C5 witness: the closure of a package that lists itself, and of two packages that
\* depend on each other, has been computed and the graph is finished.
C5_Witness ==
    /\ pc = "done"
    /\ \E p \in Range(packages) : <<p, p>> \in DirectRel
    /\ \E p, q \in Range(packages) : p # q /\ <<p, q>> \in DirectRel /\ <<q, p>> \in DirectRel

\* The steps of find_transitive_dependencies after the traversal graph is built.
ClosureStep ==
    \/ StartWalk
    \/ DfsVisited
    \/ DfsEnter
    \/ DfsRecurse
    \/ DfsReturn
    \/ FinishWalk
    \/ ClosureDone

\* C6: every walk enters each node at most once, takes at most two steps per node
\* and per edge of the traversal graph and never nests deeper than one call per node
\* plus one, and the closure computation is never stuck before it returns.
C6_WalkTerminates ==
    /\ \A n \in DOMAIN visits : visits[n] <= 1
    /\ walk_steps <= 2 * (Len(packages) + Len(t_edges))
    /\ Len(stack) <= Len(packages) + 1
    /\ pc \in {"closure", "walk"} => ENABLED ClosureStep

\* C6 witness: the walk of a package that lies on a dependency cycle is over, and a
\* recursive call on an already visited node was cut short during it.
C6_Witness ==
    /\ pc = "walk"
    /\ stack = <<>>
    /\ packages[t_pkg] \in deps
    /\ \E k \in 1..Len(t_edges) : t_edges[k].to = t_pkg /\ t_edges[k].from # t_pkg
    /\ walk_steps > 2 * Cardinality(visited)

\* The scenario of the tests: python, numpy and pandas, numpy depending on python and
\* pandas on python and numpy.
Scenario ==
    /\ packages = <<python, numpy, pandas>>
    /\ DOMAIN dependency_map = {numpy, pandas}
    /\ dependency_map[numpy] = <<python>>
    /\ dependency_map[pandas] = <<python, numpy>>

DeclaredPairs == {<<p, q>> \in Range(packages) \X Range(packages) : Declares(p, q)}

\* C7: the finished graph has one node per package; when everything a package reaches
\* is a declared dependency of it, the edges are the declared pairs of packages, one
\* direct edge each; the scenario gives 3 nodes, 3 edges and no conflict.
C7_NodeAndEdgeCount ==
    pc = "done" =>
        /\ Len(graph_nodes) = Len(packages)
        /\ (\A p \in Range(packages) : \A q \in ReachableFrom(p) : Declares(p, q)) =>
              /\ Len(graph_edges) = Cardinality(DeclaredPairs)
              /\ \A k \in EdgeIndexes : graph_edges[k].label = "depends on"
              /\ \A i, j \in EdgeIndexes :
                    (graph_edges[i].from = graph_edges[j].from
                     /\ graph_edges[i].to = graph_edges[j].to) => i = j
        /\ Scenario => Len(graph_nodes) = 3 /\ Len(graph_edges) = 3 /\ conflicts = <<>>

\* The indexes of the strings of p's list that parse to the dependency name d.
DeclarationsOn(p, d) ==
    {i \in 1..Len(dependency_map[p]) :
        /\ parse_dependency(dependency_map[p][i]).some
        /\ parse_dependency(dependency_map[p][i]).value.name = d}

ConstraintOf(p, i) == parse_dependency(dependency_map[p][i]).value.constraint

\* The dependency names the map declares.
DeclaredNames ==
    UNION {{parse_dependency(dependency_map[p][i]).value.name :
               i \in {j \in 1..Len(dependency_map[p]) :
                         parse_dependency(dependency_map[p][j]).some}} :
           p \in DOMAIN dependency_map}

\* The records of conflicts that name the packages a and b, in either order, and the
\* dependency d.
RecordsFor(a, b, d) ==
    {k \in 1..Len(conflicts) :
        /\ {conflicts[k][1], conflicts[k][2]} = {a, b}
        /\ StartsWith(conflicts[k][3], d \o <<" ", "(">>)}

\* C8: when detect_conflicts returns, two distinct packages that each declare one
\* version constraint on the same dependency name, the two being incompatible for
\* versions_compatible, have exactly one conflict record, which names the dependency.
C8_IncompatiblePairReported ==
    pc = "done" =>
        \A a, b \in DOMAIN dependency_map : \A d \in DeclaredNames :
            (/\ a # b
             /\ Cardinality(DeclarationsOn(a, d)) = 1
             /\ Cardinality(DeclarationsOn(b, d)) = 1
             /\ \A i \in DeclarationsOn(a, d) : \A j \in DeclarationsOn(b, d) :
                   /\ ConstraintOf(a, i) # <<>>
                   /\ ConstraintOf(b, j) # <<>>
                   /\ ~versions_compatible(ConstraintOf(a, i), ConstraintOf(b, j)))
                => Cardinality(RecordsFor(a, b, d)) = 1

\* C9: every pair of constraints that detect_conflicts compares and that are
\* identical, or one of which is empty or "any", is found compatible and gives no
\* conflict record.
C9_IdenticalOrAnyCompatible ==
    \A k \in 1..Len(examined) :
        (/\ examined[k].ver1.some
         /\ examined[k].ver2.some
         /\ \/ examined[k].ver1.value = examined[k].ver2.value
            \/ examined[k].ver1.value \in {<<>>, any}
            \/ examined[k].ver2.value \in {<<>>, any})
            => /\ versions_compatible(examined[k].ver1.value, examined[k].ver2.value)
               /\ ~examined[k].conflict

\* The packages whose list holds a string for the shared dependency dep.
DeclaringPackages(dep) ==
    {p \in DOMAIN dependency_map : \E i \in 1..Len(dependency_map[p]) :
        RequirementIn(dependency_map[p][i], dep).some}

\* C10: every conflict record names two distinct packages, and a dependency gets a
\* record only if two distinct packages or more declare it.
C10_RecordsNameDistinctPackages ==
    /\ \A k \in 1..Len(conflicts) : conflicts[k][1] # conflicts[k][2]
    /\ \A k \in 1..Len(examined) :
          examined[k].conflict => Cardinality(DeclaringPackages(examined[k].dep)) >= 2

\* ------------------------------------------------------------- C11 to C13
\* The dependency name of a shared_deps key, as parse_dependency gives it.
NameOf(dep) == parse_dependency(dep).value.name

\* p declares the dependency name d, and every declaration of it is a bare name.
DeclaresUnconstrained(p, d) ==
    /\ p \in DOMAIN dependency_map
    /\ DeclarationsOn(p, d) # {}
    /\ \A i \in DeclarationsOn(p, d) : ConstraintOf(p, i) = <<>>

\* C11: a pair of dependents of a shared dependency, one of which declares the
\* dependency by its bare name only, gets no conflict record, whatever the other
\* dependent declares.
C11_NoConflictWithUnconstrained ==
    \A k \in 1..Len(examined) :
        (/\ parse_dependency(examined[k].dep).some
         /\ \/ DeclaresUnconstrained(examined[k].pkg1, NameOf(examined[k].dep))
            \/ DeclaresUnconstrained(examined[k].pkg2, NameOf(examined[k].dep)))
            => ~examined[k].conflict

\* detect_conflicts as a function of the map and of the iteration order of its keys:
\* the shared_deps keys for which some pair of dependents gets a conflict record.
ConflictDepsOf(m, order) ==
    LET sd == SharedDepsOf(<<>>, order, m)
    IN {d \in DOMAIN sd :
           /\ ~TooFewDependents(sd[d])
           /\ \E i, j \in 1..Len(sd[d]) :
                 i < j /\ PairConflicts(m, d, sd[d][i], sd[d][j]) # <<>>}

\* The dependency map after the lists of the packages a and b are swapped.
SwapName(k, a, b) == IF k = a THEN b ELSE IF k = b THEN a ELSE k

Swapped(m, a, b) == [k \in {SwapName(x, a, b) : x \in DOMAIN m} |-> m[SwapName(k, a, b)]]

\* The shared_deps keys for which the run reported a conflict.
ReportedDeps == {examined[k].dep : k \in {n \in 1..Len(examined) : examined[n].conflict}}

\* C12: versions_compatible gives the same answer for every compared pair of
\* constraints in both argument orders, and when detect_conflicts returns, the
\* shared dependencies it reported a conflict on are those it reports after the
\* lists of any two packages are swapped, whatever the iteration order of the map.
C12_Symmetric ==
    /\ \A k \in 1..Len(examined) :
          (examined[k].ver1.some /\ examined[k].ver2.some) =>
              versions_compatible(examined[k].ver1.value, examined[k].ver2.value)
                  = versions_compatible(examined[k].ver2.value, examined[k].ver1.value)
    /\ pc = "done" =>
          \A a, b \in Range(packages) :
              \A order \in Perms(DOMAIN Swapped(dependency_map, a, b)) :
                  ConflictDepsOf(Swapped(dependency_map, a, b), order) = ReportedDeps

\* C12 witness: detect_conflicts has returned a conflict between two packages with
\* different lists, the constraints compared being different.
C12_Witness ==
    /\ pc = "done"
    /\ DOMAIN dependency_map = {pandas, scikit_learn}
    /\ dependency_map[pandas] # dependency_map[scikit_learn]
    /\ \E k \in 1..Len(examined) :
          /\ examined[k].conflict
          /\ examined[k].pkg1 # examined[k].pkg2
          /\ examined[k].ver1.value # examined[k].ver2.value

\* The probe set of the rule, as <<major, minor, patch>>.
ProbeSet == {<<0, 1, 0>>, <<1, 0, 0>>, <<1, 1, 0>>, <<1, 2, 3>>, <<2, 0, 0>>,
             <<2, 3, 4>>, <<3, 0, 0>>, <<3, 4, 5>>, <<4, 0, 0>>, <<4, 5, 6>>}

BothParse(ver1, ver2) == VersionReqParse(ver1) # ReqErr /\ VersionReqParse(ver2) # ReqErr

SatisfiesBoth(ver1, ver2, v) ==
    Matches(VersionReqParse(ver1), v) /\ Matches(VersionReqParse(ver2), v)

\* C13: for every compared pair of constraints that both parse as version
\* requirements, versions_compatible is true exactly when some version of the probe
\* set satisfies both, and the pair gets a conflict record exactly when none does.
C13_ProbeSetDecides ==
    \A k \in 1..Len(examined) :
        (/\ examined[k].ver1.some
         /\ examined[k].ver2.some
         /\ BothParse(examined[k].ver1.value, examined[k].ver2.value))
            => /\ versions_compatible(examined[k].ver1.value, examined[k].ver2.value)
                  <=> \E v \in ProbeSet :
                         SatisfiesBoth(examined[k].ver1.value, examined[k].ver2.value, v)
               /\ examined[k].conflict
                  <=> ~\E v \in ProbeSet :
                         SatisfiesBoth(examined[k].ver1.value, examined[k].ver2.value, v)

\* C13 witness: two requirements that version 5.0.0 satisfies, outside the probe set,
\* were compared and reported as a conflict.
C13_Witness ==
    \E k \in 1..Len(examined) :
        /\ examined[k].ver1.some
        /\ examined[k].ver2.some
        /\ BothParse(examined[k].ver1.value, examined[k].ver2.value)
        /\ SatisfiesBoth(examined[k].ver1.value, examined[k].ver2.value, <<5, 0, 0>>)
        /\ examined[k].conflict

\* ------------------------------------------------------------- C14 to C19
LaidOut == lpc = "laid_out"

NodeIndexes == 1..Len(graph_nodes)

\* The entries of positions_vec for node i.
PositionsFor(i) == {k \in 1..Len(positions_vec) : positions_vec[k].node = i}

\* C14: the layout returned has exactly one position for every node of the graph, and
\* max_width and max_height are at least the x and the y of every position.
C14_OnePositionPerNode ==
    LaidOut =>
        /\ \A i \in NodeIndexes : Cardinality(PositionsFor(i)) = 1
        /\ \A k \in 1..Len(positions_vec) :
              /\ positions_vec[k].node \in NodeIndexes
              /\ max_width >= positions_vec[k].x
              /\ max_height >= positions_vec[k].y

\* The layers that hold node i.
LayersOf(i) == {l \in 1..Len(layers) : \E k \in 1..Len(layers[l]) : layers[l][k] = i}

\* The y of layer l.
LayerY(l) == (l - 1) * vertical_spacing + 2

\* C15: in the layout returned, every target of an outgoing edge of a node that is in
\* a layer other than the forced one is in a strictly earlier layer, that is, has a
\* strictly smaller y.
C15_TargetsInEarlierLayers ==
    LaidOut =>
        \A l \in 1..Len(layers) : \A k \in 1..Len(layers[l]) :
            l # forced =>
                \A e \in 1..Len(graph_edges) :
                    graph_edges[e].from = layers[l][k] =>
                        /\ \E m \in LayersOf(graph_edges[e].to) : m < l
                        /\ \A a \in PositionsFor(layers[l][k]) :
                              \E b \in PositionsFor(graph_edges[e].to) :
                                  positions_vec[b].y < positions_vec[a].y

\* C16: the layering loop goes on to another pass only after a pass that placed a
\* node, it has run fewer passes than the graph has nodes whenever another pass is
\* due, and a call runs no more passes and builds no more layers than the graph has
\* nodes, none of them empty; this also on graphs with cycles and self-loops.
C16_LayoutTerminates ==
    /\ (lpc = "layers" /\ Cardinality(assigned) < Len(graph_nodes)) => passes < Len(graph_nodes)
    /\ (lpc = "layers" /\ passes > 0) => placed_last > 0
    /\ lpc \in {"layers", "positions", "laid_out"} =>
          /\ passes <= Len(graph_nodes)
          /\ Len(layers) <= Len(graph_nodes)
          /\ \A l \in 1..Len(layers) : layers[l] # <<>>

\* C16 witness: a call has returned on a graph with a self-loop and a cycle through
\* two nodes, after two passes or more.
C16_Witness ==
    /\ LaidOut
    /\ passes >= 2
    /\ \E e \in 1..Len(graph_edges) : graph_edges[e].from = graph_edges[e].to
    /\ \E e, f \in 1..Len(graph_edges) :
          /\ graph_edges[e].from # graph_edges[e].to
          /\ graph_edges[f].from = graph_edges[e].to
          /\ graph_edges[f].to = graph_edges[e].from

\* The graph that is only the cycle 1 -> 2 -> 3 -> 1 over three distinct names.
ThreeCycle ==
    /\ Len(graph_nodes) = 3
    /\ Cardinality(Range(graph_nodes)) = 3
    /\ {<<graph_edges[e].from, graph_edges[e].to>> : e \in 1..Len(graph_edges)}
          = {<<1, 2>>, <<2, 3>>, <<3, 1>>}

\* C17: when a pass could place no node, the forced layer is the last layer and holds
\* every node that no earlier layer holds; the three nodes of the 3-node cycle are in
\* the forced layer, the only one.
C17_ForcedLayerLast ==
    LaidOut =>
        /\ forced # 0 =>
              /\ forced = Len(layers)
              /\ \A i \in NodeIndexes :
                    (\A m \in LayersOf(i) : m >= forced) => forced \in LayersOf(i)
        /\ ThreeCycle => forced = 1 /\ layers = <<<<1, 2, 3>>>>

\* C18: two consecutive nodes of a layer do not overlap, the second starting at or
\* after the end of the label of the first, and max_width is the largest x plus label
\* length over all positions.
C18_LabelsDoNotOverlap ==
    LaidOut =>
        /\ \A k \in 1..(Len(positions_vec) - 1) :
              positions_vec[k].y = positions_vec[k + 1].y =>
                  positions_vec[k + 1].x >= positions_vec[k].x + Len(positions_vec[k].name)
        /\ \A k \in 1..Len(positions_vec) :
              max_width >= positions_vec[k].x + Len(positions_vec[k].name)
        /\ positions_vec # <<>> =>
              \E k \in 1..Len(positions_vec) :
                  max_width = positions_vec[k].x + Len(positions_vec[k].name)

C20_NeverFails ==
    /\ pc \in {"nodes", "direct", "closure", "walk", "transitive", "conflicts", "pairs", "done"}
    /\ pc = "transitive" => tr_todo \subseteq DOMAIN transitive_deps
    /\ pc = "pairs" => sd_todo \subseteq DOMAIN shared_deps
    /\ pc = "direct" => ki \in 1..(Len(key_order) + 1)
    /\ pc \in {"closure", "walk"} => t_pkg \in 1..(Len(packages) + 1)
    /\ \A k \in 1..Len(stack) : stack[k].node \in 1..Len(packages)
    /\ (pc = "pairs" /\ cur_dep.some) =>
          /\ cur_dep.value \in DOMAIN shared_deps
          /\ ci \in 1..Len(shared_deps[cur_dep.value])
          /\ cj \in (ci + 1)..Len(shared_deps[cur_dep.value])
          /\ \A k \in 1..Len(shared_deps[cur_dep.value]) :
                shared_deps[cur_dep.value][k] \in DOMAIN dependency_map
    /\ \A k \in EdgeIndexes :
          /\ InGraph(k)
          /\ graph_edges[k].label = "depends on" =>
                /\ graph_nodes[graph_edges[k].from] \in DOMAIN dependency_map
                /\ Declares(graph_nodes[graph_edges[k].from], graph_nodes[graph_edges[k].to])
          /\ graph_edges[k].label = "transitive" =>
                graph_nodes[graph_edges[k].to] \in ReachableFrom(graph_nodes[graph_edges[k].from])
    /\ pc = "done" =>
          /\ graph_nodes = packages
          /\ \A k \in 1..Len(conflicts) :
                {conflicts[k][1], conflicts[k][2]} \subseteq DOMAIN dependency_map

\* C20 witness: the builder has returned on a map in which a key names no package, a
\* package has no entry, a string has no name and another names no package.
C20_Witness ==
    /\ pc = "done"
    /\ packages # <<>>
    /\ \E key \in DOMAIN dependency_map : key \notin Range(packages)
    /\ \E p \in Range(packages) : p \notin DOMAIN dependency_map
    /\ \E key \in DOMAIN dependency_map \cap Range(packages) :
          /\ \E i \in 1..Len(dependency_map[key]) :
                ~parse_dependency(dependency_map[key][i]).some
          /\ \E i \in 1..Len(dependency_map[key]) :
                /\ parse_dependency(dependency_map[key][i]).some
                /\ parse_dependency(dependency_map[key][i]).value.name \notin Range(packages)

\* C21: once create_advanced_dependency_graph has run its loop over the packages, and
\* from then on until it returns, direct_deps contains the name of every package,
\* whatever the dependency map holds.
C21_DirectDepsHoldEveryPackage ==
    pc # "nodes" => \A i \in 1..Len(packages) : packages[i] \in direct_deps

\* C21 witness: the function has returned on two or more packages, one of which is
\* neither a key of the dependency map nor named by any dependency string.
C21_Witness ==
    /\ pc = "done"
    /\ Len(packages) >= 2
    /\ dependency_map # <<>>
    /\ \E i \in 1..Len(packages) :
          /\ packages[i] \notin DOMAIN dependency_map
          /\ \A key \in DOMAIN dependency_map : ~Declares(key, packages[i])
          /\ packages[i] \in direct_deps

\* The index pairs (i, j), i < j <= n, from row i on, in the order of the two loops.
RECURSIVE PairsFrom(_, _)
PairsFrom(i, n) ==
    IF i >= n THEN <<>>
    ELSE [k \in 1..(n - i) |-> <<i, i + k>>] \o PairsFrom(i + 1, n)

ExaminedOf(dep) == SelectSeq(examined, LAMBDA r : r.dep = dep)

ExaminedPairs(dep) == [k \in 1..Len(ExaminedOf(dep)) |-> <<ExaminedOf(dep)[k].i, ExaminedOf(dep)[k].j>>]

ConflictingExamined == SelectSeq(examined, LAMBDA r : r.conflict)

\* C27: for every shared dependency, the index pairs examined so far are a prefix of
\* the pairs (i, j), i < j, of its dependents in (i, j) order, and all of them once the
\* entry is finished (none for an entry with fewer than two dependents); the conflict
\* records are, in order, one record for each examined pair found incompatible, so
\* a pair of packages incompatible on two shared dependencies has two records.
C27_EveryPairOnceInOrder ==
    pc \in {"pairs", "done"} =>
       /\ \A dep \in DOMAIN shared_deps :
             LET all == PairsFrom(1, Len(shared_deps[dep]))
                 ex == ExaminedPairs(dep)
             IN /\ Len(ex) <= Len(all)
                /\ ex = SubSeq(all, 1, Len(ex))
                /\ (dep \notin sd_todo /\ cur_dep # Some(dep)) => ex = all
                /\ \A k \in 1..Len(ExaminedOf(dep)) :
                      /\ ExaminedOf(dep)[k].pkg1 = shared_deps[dep][ex[k][1]]
                      /\ ExaminedOf(dep)[k].pkg2 = shared_deps[dep][ex[k][2]]
       /\ Len(conflicts) = Len(ConflictingExamined)
       /\ \A k \in 1..Len(conflicts) :
             LET r == ConflictingExamined[k]
             IN conflicts[k] = <<r.pkg1, r.pkg2, Description(r.dep, r.ver1.value, r.ver2.value)>>

\* C27 witness: detect_conflicts has returned two records for one pair of different
\* packages, one for each of two shared dependencies.
C27_Witness ==
    /\ pc = "done"
    /\ \E k1, k2 \in 1..Len(conflicts) :
          /\ k1 < k2
          /\ conflicts[k1][1] = conflicts[k2][1]
          /\ conflicts[k1][2] = conflicts[k2][2]
          /\ conflicts[k1][1] # conflicts[k1][2]
          /\ ConflictingExamined[k1].dep # ConflictingExamined[k2].dep

\* C22: in a session without an advanced graph, selected_tab stays in 0..3, the Right
\* key selects tab (t + 1) mod 4 and the Left key tab (t + 3) mod 4, t being the tab
\* selected before the key.
C22_TabsWrapWithoutGraph ==
    (ui_pc # "idle" /\ ~has_graph) =>
       /\ selected_tab \in 0..3
       /\ last_key = "Right" => selected_tab = (before_key.tab + 1) % 4
       /\ last_key = "Left" => selected_tab = (before_key.tab + 3) % 4

\* C22 witness: without a graph, the Right key has been handled on the last tab and
\* the first tab is selected.
C22_Witness ==
    /\ ui_pc = "running"
    /\ ~has_graph
    /\ last_key = "Right"
    /\ before_key.tab = 3
    /\ selected_tab = 0

\* C23: on the Packages tab with a non-empty list, the Down key on the last package
\* leaves it selected and moves the selection down by one otherwise; the Up key on
\* the first package leaves it selected and moves the selection up by one otherwise.
C23_SelectionDoesNotWrap ==
    (ui_pc = "running" /\ packages_len > 0 /\ before_key.tab = 1) =>
       /\ last_key = "Down" =>
             selected_package = IF before_key.package = packages_len - 1
                                THEN packages_len - 1
                                ELSE before_key.package + 1
       /\ last_key = "Up" =>
             selected_package = IF before_key.package = 0
                                THEN 0
                                ELSE before_key.package - 1

ArrowKeys == {"Right", "Left", "Down", "Up"}

\* The tabs some finite sequence of arrow keys selects, starting from the tabs of S.
RECURSIVE TabsFrom(_, _)
TabsFrom(S, graph) ==
    LET N == S \cup {TabAfter(t, k, graph) : t \in S, k \in ArrowKeys}
    IN IF N = S THEN S ELSE TabsFrom(N, graph)

\* C28: in every state of a running session, with or without a graph, some finite
\* sequence of arrow keys selects each of the four tabs.
C28_EveryTabReachable ==
    ui_pc = "running" => TabsFrom({selected_tab}, has_graph) = 0..3

\* C29: handling a key never fails, whatever the keys and the package list, and the
\* selected package is an index of the list when the list is not empty.
C29_KeysNeverFail ==
    /\ ui_pc # "panicked"
    /\ packages_len > 0 => selected_package < packages_len

\* Every method called for package i failed.
EveryMethodFailed(i) == \A k \in 1..Len(lk_tried[i]) : ~lk_tried[i][k].ok

TriedInOrder(i) ==
    LET tried == lk_tried[i]
        expected == IF lk_packages[i].channel = Some("pip") THEN <<1, 2, 3, 4, 5>> ELSE <<1, 2, 4, 5>>
    IN /\ Len(tried) \in 1..Len(expected)
       /\ \A k \in 1..Len(tried) : tried[k].method = expected[k]
       /\ \A k \in 1..(Len(tried) - 1) : ~tried[k].ok
       /\ ~tried[Len(tried)].ok => Len(tried) = Len(expected)
       /\ lk_first[i].some <=> tried[Len(tried)].ok
       /\ lk_first[i].some => lk_first[i].value.method = tried[Len(tried)].method

\* A key of the map enhance_dependency_map is called on lists the package.
ListedAsDependency(name) == \E key \in DOMAIN lk_stored : name \in Range(lk_stored[key])

Fetching == {t \in Threads : sc_pc[t] = "fetch"}

\* C25: under every interleaving of concurrent calls of check_pypi_security, the
\* Safety DB is fetched successfully at most once; a populated cache holds the
\* database of that fetch ever after, is what every call clones, and no fetch starts
\* on it; at most one fetch is in flight, by the thread that holds the guard; and as
\* long as no fetch succeeded the cache is empty, so that the next call fetches.
C25_SingleAssignmentCache ==
    sc_pc # <<>> =>
       /\ Len(sc_fetched) <= 1
       /\ sc_fetched = <<>> => safety_db_cache = None
       /\ sc_fetched # <<>> => safety_db_cache = Some(sc_fetched[1])
       /\ Cardinality(Fetching) <= 1
       /\ \A t \in Threads :
             /\ sc_pc[t] = "fetch" => (sc_mutex = t /\ safety_db_cache = None)
             /\ sc_pc[t] = "read" => (sc_mutex = t /\ safety_db_cache.some)
             /\ \A k \in 1..Len(sc_got[t]) : sc_got[t][k] = Some(sc_fetched[1])

\* C25 witness: a fetch has failed, a later call has fetched the database and cloned
\* it, and the thread of that call waits for the guard, which another thread holds on
\* the populated cache.
C25_Witness ==
    /\ sc_pc # <<>>
    /\ sc_failed >= 1
    /\ Len(sc_fetched) = 1
    /\ \E t, u \in Threads :
          /\ t # u
          /\ sc_got[t] # <<>>
          /\ sc_pc[t] = "lock"
          /\ sc_pc[u] = "read"

\* The result of the lookup for the name and channel of package i.
ResultFor(i) == en_results[CacheKey(en_input[i].name, en_input[i].channel)]

\* Package i is neither skipped nor without a result.
Enrichable(i) == en_input[i].name # <<>> /\ ~Contains(en_input[i].name, <<">">>) /\ ResultFor(i).ok

\* Package i as enrich_packages_parallel has to leave it.
Enriched(i) ==
    IF Enrichable(i)
    THEN [name |-> en_input[i].name,
          channel |-> en_input[i].channel,
          version |-> en_input[i].version,
          is_outdated |-> IsOutdated(en_input[i], ResultFor(i).info),
          latest_version |-> Some(ResultFor(i).info.latest_version),
          size |-> ResultFor(i).info.size]
    ELSE en_input[i]

\* C30: under every interleaving of the runs of the closure, the list keeps its
\* length and its order; package i is either as the call received it or updated from
\* the result of the lookup for its own name and channel; a package that is skipped
\* or whose lookup failed keeps every field; and once every run is over the list is
\* the one the inputs and the lookup results determine.
C30_OwnResultOnly ==
    en_pc # <<>> =>
       /\ Len(en_packages) = Len(en_input)
       /\ \A i \in 1..Len(en_input) :
             /\ en_packages[i].name = en_input[i].name
             /\ en_packages[i].channel = en_input[i].channel
             /\ en_packages[i] \in {en_input[i], Enriched(i)}
             /\ en_pc[i] = "done" => en_packages[i] = Enriched(i)

\* C30 witness: every run is over on two packages of different names or channels
\* whose lookups gave different results, both updated, one found outdated by the
\* comparison of versions.
C30_Witness ==
    /\ Len(en_input) = 2
    /\ \A i \in 1..2 : en_pc[i] = "done" /\ Enrichable(i)
    /\ ResultFor(1) # ResultFor(2)
    /\ en_packages[1].latest_version # en_packages[2].latest_version
    /\ en_packages[1] # en_input[1]
    /\ en_packages[2] # en_input[2]
    /\ \E i \in 1..2 : en_packages[i].is_outdated

====
